---- MODULE Spec2Model ----
(***************************************************************************)
(* A model of the concurrent provisioning engine of ghas-lab-builder:      *)
(*   - the worker pool of CreateLabEnvironment / DestroyLabEnvironment /   *)
(*     orgs delete-batch (internal/services/lab_service.go,                *)
(*     cmd/orgs/delete_batch.go)                          -- Spec          *)
(*   - the token cache of NewGithubStyleTransport (internal/github         *)
(*     transport, src/unnamed/part_000)                   -- SpecCache     *)
(*   - the retry policy of createRepoFromTemplateWithRetry                 *)
(*     (internal/github/repos.go)                         -- SpecRetry     *)
(***************************************************************************)
EXTENDS Integers, Sequences, FiniteSets, TLC

(***************************************************************************)
(* Bounds of the model.                                                    *)
(***************************************************************************)
\* largest number of identities dispatched in one run
MaxUsers == 2
\* the numbers of template repositories a run of the pool model is configured with
TemplateCounts == {0, 1}

(***************************************************************************)
(* Program constants.                                                      *)
(***************************************************************************)
\* the largest number of configured templates in the study of the provisioning
\* procedure, and the numbers of identities of its runs
MaxTemplates == 2
ProvisionSizes == {1, 2}

\* numWorkers := 9
MaxWorkers == 9

VARIABLES
    \* ---- worker pool (lab_service.go, delete_batch.go) ----
    mode,           \* "create" | "destroy" | "batch": which run this is
    tracing,        \* the history of remote calls (calls) is kept in this run
    usePAT,         \* ctx carries config.TokenKey (static credential)
    facilitators,   \* ctx.Value(config.FacilitatorsKey), as a set of identities
    templateRepos,  \* number of configured templates (they are 1..templateRepos)
    allUsers,       \* allUsersToProvision / allUsersToDelete / orgNames
    numWorkers,     \* number of worker goroutines started
    toSend,         \* identities the dispatcher loop has not sent yet
    orgChan,        \* the work queue (buffered channel, capacity len(allUsers))
    orgChanClosed,  \* close(orgChan) has run
    resultsChan,    \* the result channel (buffered, capacity len(allUsers))
    resultsClosed,  \* close(resultsChan) has run
    cancelled,      \* ctx.Done() is closed
    wpc,            \* per worker: position in the worker function
    wuser,          \* per worker: the identity it is processing (0: none)
    wres,           \* per worker: the result record under construction
    sawCancel,      \* per worker: it left through the ctx.Done() branch
    dequeues,       \* history: per identity, the number of times it was received from orgChan
    started,        \* history: identities whose processing passed the ctx.Done() check
    published,      \* history: per identity, the number of records sent for it
    lateSend,       \* history: a record was sent after close(resultsChan)
    sent,           \* history: the records sent to resultsChan, in the order of the sends
    calls,          \* history (kept when tracing): per identity, the remote calls made
                    \* for it, in order, each with its outcome
    aggPc,          \* aggregator: "loop" | "closed" (returned on the closed channel) | "deadline" (returned on ctx.Done())
    results,        \* aggregator: records received, in arrival order
    resultCount, successCount, failureCount,
    reports,        \* number of times the report files were generated
    emitted,        \* the reports handed to GenerateReportFiles / GenerateDeleteReportFiles
    retErr          \* value returned by the run: "none" (still running) | "nil" | "ctxErr" | "failures"

poolVars == <<mode, tracing, usePAT, facilitators, templateRepos, allUsers, numWorkers, toSend,
              orgChan, orgChanClosed, resultsChan, resultsClosed, cancelled,
              wpc, wuser, wres, sawCancel,
              dequeues, started, published, lateSend, sent, calls,
              aggPc, results, resultCount, successCount, failureCount, reports, emitted, retErr>>

Workers == 1..numWorkers

\* orgName := "ghas-labs-" + labDate + "-" + user ; the lab date is fixed for a run
LabDate == "D"
OrgNameOf(user) == <<"ghas-labs-", LabDate, "-", user>>

\* mutant: one worker per identity, without the cap
NumWorkersFor_NoCap(k) == k

\* numWorkers := 9; if len(all) < numWorkers { numWorkers = len(all) }
NumWorkersFor(k) == IF k < MaxWorkers THEN k ELSE MaxWorkers

NoResult == [user |-> 0, orgName |-> <<>>, status |-> "none", error |-> "", repos |-> <<>>]

\* the state of a run when its workers have been started, for the given kinds of run,
\* numbers of identities and numbers of templates, with or without the call history
InitPoolWith(modes, sizes, templates, trace) ==
    /\ mode \in modes
    /\ tracing = trace
    /\ \E k \in sizes :
         /\ allUsers = 1..k
         /\ numWorkers = NumWorkersFor(k)
         /\ toSend = 1..k
         /\ dequeues = [u \in 1..k |-> 0]
         /\ published = [u \in 1..k |-> 0]
         /\ calls = [u \in 1..k |-> <<>>]
         /\ wpc = [w \in 1..NumWorkersFor(k) |-> "idle"]
         /\ wuser = [w \in 1..NumWorkersFor(k) |-> 0]
         /\ wres = [w \in 1..NumWorkersFor(k) |-> NoResult]
         /\ sawCancel = [w \in 1..NumWorkersFor(k) |-> FALSE]
         \* the facilitators are dispatched with the users (the union is provisioned)
         /\ IF mode = "create" THEN facilitators \in SUBSET (1..k) ELSE facilitators = {}
    \* only the create path reads TokenKey and the template list
    /\ IF mode = "create" THEN usePAT \in BOOLEAN ELSE usePAT = FALSE
    /\ IF mode = "create" THEN templateRepos \in templates ELSE templateRepos = 0
    /\ orgChan = <<>>
    /\ orgChanClosed = FALSE
    /\ resultsChan = <<>>
    /\ resultsClosed = FALSE
    /\ cancelled = FALSE
    /\ started = {}
    /\ lateSend = FALSE
    /\ sent = <<>>
    /\ aggPc = "loop"
    /\ results = <<>>
    /\ resultCount = 0
    /\ successCount = 0
    /\ failureCount = 0
    /\ reports = 0
    /\ emitted = <<>>
    /\ retErr = "none"

InitPoolFor(modes, sizes) == InitPoolWith(modes, sizes, TemplateCounts, FALSE)

InitPool == InitPoolFor({"create", "destroy", "batch"}, 0..MaxUsers)

\* no run under way (the pool part of the state while another component is studied)
PoolIdle == InitPoolFor({"batch"}, {0})

(***************************************************************************)
(* The dispatcher: CreateLabEnvironment lines 248-259 (and the same code   *)
(* in DestroyLabEnvironment 494-505 and delete-batch 104-114).  The worker *)
(* goroutines are started before the first send.                           *)
(***************************************************************************)
\* mutant: the two channels are made one slot short of the number of units
ChanCapacity_OneShort == Cardinality(allUsers) - 1

\* make(chan string, len(allUsersToProvision)), make(chan ProvisionResult,
\* len(allUsersToProvision)): the capacity of the work queue and of the result channel
ChanCapacity == Cardinality(allUsers)

\* for _, user := range all { orgChan <- user } ; the order is the map's iteration
\* order: the identities are numbered 1..k in the order this loop sends them
Enqueue ==
    /\ ~orgChanClosed
    /\ Len(orgChan) < ChanCapacity
    /\ \E u \in toSend :
         /\ \A v \in toSend : u <= v
         /\ orgChan' = Append(orgChan, u)
         /\ toSend' = toSend \ {u}
    /\ UNCHANGED <<calls, mode, tracing, usePAT, facilitators, templateRepos, allUsers, numWorkers,
                   orgChanClosed, resultsChan, resultsClosed, cancelled,
                   wpc, wuser, wres, sawCancel,
                   dequeues, started, published, lateSend, sent,
                   aggPc, results, resultCount, successCount, failureCount, reports, emitted, retErr>>

\* mutant: the dispatcher ends without close(orgChan)
CloseOrgChan_Missing ==
    /\ ~orgChanClosed
    /\ toSend = {}
    /\ UNCHANGED <<calls, mode, tracing, usePAT, facilitators, templateRepos, allUsers, numWorkers, toSend,
                   orgChan, orgChanClosed, resultsChan, resultsClosed, cancelled,
                   wpc, wuser, wres, sawCancel,
                   dequeues, started, published, lateSend, sent,
                   aggPc, results, resultCount, successCount, failureCount, reports, emitted, retErr>>

\* mutant: close(orgChan) does not wait for the end of the dispatch loop
CloseOrgChan_Early ==
    /\ ~orgChanClosed
    /\ orgChanClosed' = TRUE
    /\ UNCHANGED <<calls, mode, tracing, usePAT, facilitators, templateRepos, allUsers, numWorkers, toSend,
                   orgChan, resultsChan, resultsClosed, cancelled,
                   wpc, wuser, wres, sawCancel,
                   dequeues, started, published, lateSend, sent,
                   aggPc, results, resultCount, successCount, failureCount, reports, emitted, retErr>>

\* close(orgChan)
CloseOrgChan ==
    /\ toSend = {}
    /\ ~orgChanClosed
    /\ orgChanClosed' = TRUE
    /\ UNCHANGED <<calls, mode, tracing, usePAT, facilitators, templateRepos, allUsers, numWorkers, toSend,
                   orgChan, resultsChan, resultsClosed, cancelled,
                   wpc, wuser, wres, sawCancel,
                   dequeues, started, published, lateSend, sent,
                   aggPc, results, resultCount, successCount, failureCount, reports, emitted, retErr>>

\* mutant: close(resultsChan) without waiting for the workers
WaitGroupDone_NoWait == TRUE

\* wg.Wait() returns once every worker's deferred wg.Done() has run
WaitGroupDone == \A w \in Workers : wpc[w] = "exited"

\* go func() { wg.Wait(); close(resultsChan) }() ; started after close(orgChan)
CloseResults ==
    /\ orgChanClosed
    /\ ~resultsClosed
    /\ WaitGroupDone
    /\ resultsClosed' = TRUE
    /\ UNCHANGED <<calls, mode, tracing, usePAT, facilitators, templateRepos, allUsers, numWorkers, toSend,
                   orgChan, orgChanClosed, resultsChan, cancelled,
                   wpc, wuser, wres, sawCancel,
                   dequeues, started, published, lateSend, sent,
                   aggPc, results, resultCount, successCount, failureCount, reports, emitted, retErr>>

\* the run's context is cancelled (deadline or caller)
Cancel ==
    /\ ~cancelled
    /\ cancelled' = TRUE
    /\ UNCHANGED <<calls, mode, tracing, usePAT, facilitators, templateRepos, allUsers, numWorkers, toSend,
                   orgChan, orgChanClosed, resultsChan, resultsClosed,
                   wpc, wuser, wres, sawCancel,
                   dequeues, started, published, lateSend, sent,
                   aggPc, results, resultCount, successCount, failureCount, reports, emitted, retErr>>

(***************************************************************************)
(* The workers: ProvisionOrgResources, DestroyOrgResourcesWithReport,      *)
(* deleteOrgBatchWorker.                                                   *)
(***************************************************************************)
\* a request made on a cancelled context fails; otherwise the remote side decides
RemoteOutcomes == IF cancelled THEN {FALSE} ELSE BOOLEAN

\* resultsChan <- rec (a send on a closed channel panics; recorded in lateSend)
SendResult(u, rec) ==
    /\ Len(resultsChan) < ChanCapacity
    /\ resultsChan' = IF resultsClosed THEN resultsChan ELSE Append(resultsChan, rec)
    /\ published' = [published EXCEPT ![u] = @ + 1]
    /\ lateSend' = (lateSend \/ resultsClosed)
    /\ sent' = Append(sent, rec)

\* result := ProvisionResult{User: user, Status: "failed", Repos: []RepoReport{}}
\* orgReport := DeleteOrgReport{User: user, OrgName: orgName} (User "" in delete-batch)
NewResult(u) ==
    IF mode = "create"
    THEN [user |-> u, orgName |-> <<>>, status |-> "failed", error |-> "", repos |-> <<>>]
    ELSE [user |-> IF mode = "batch" THEN 0 ELSE u,
          orgName |-> IF mode = "batch" THEN <<"org", u>> ELSE OrgNameOf(u),
          status |-> "none", error |-> "", repos |-> <<>>]

\* the remote call op is made for the identity of worker w and ends with outcome ok
\* (arg: the position of the template in the configuration, 0 for the other calls)
Called(w, op, arg, ok) ==
    calls' = IF tracing
             THEN [calls EXCEPT ![wuser[w]] = Append(@, [op |-> op, arg |-> arg, ok |-> ok])]
             ELSE calls

\* workerId is used in log lines only: workers blocked in the range loop are
\* interchangeable, and the one with the lowest id stands for whichever receives next
FirstIdle(w) == \A v \in Workers : v < w => wpc[v] # "idle"

\* mutant: the ctx.Done() branch does `continue` instead of `return`
WorkerDequeue_Continue(w) ==
    /\ wpc[w] = "idle"
    /\ FirstIdle(w)
    /\ orgChan # <<>>
    /\ LET u == Head(orgChan) IN
         /\ orgChan' = Tail(orgChan)
         /\ dequeues' = [dequeues EXCEPT ![u] = @ + 1]
         /\ IF cancelled
            THEN /\ sawCancel' = [sawCancel EXCEPT ![w] = TRUE]
                 /\ UNCHANGED <<wpc, wuser, wres, started>>
            ELSE /\ wpc' = [wpc EXCEPT ![w] = IF mode = "create" THEN "createOrg" ELSE "deleteOrg"]
                 /\ wuser' = [wuser EXCEPT ![w] = u]
                 /\ wres' = [wres EXCEPT ![w] = NewResult(u)]
                 /\ started' = started \cup {u}
                 /\ UNCHANGED sawCancel
    /\ UNCHANGED <<calls, mode, tracing, usePAT, facilitators, templateRepos, allUsers, numWorkers, toSend,
                   orgChanClosed, resultsChan, resultsClosed, cancelled,
                   published, lateSend, sent,
                   aggPc, results, resultCount, successCount, failureCount, reports, emitted, retErr>>

\* for user := range orgChan { select { case <-ctx.Done(): return; default: } ...
WorkerDequeue(w) ==
    /\ wpc[w] = "idle"
    /\ FirstIdle(w)
    /\ orgChan # <<>>
    /\ LET u == Head(orgChan) IN
         /\ orgChan' = Tail(orgChan)
         /\ dequeues' = [dequeues EXCEPT ![u] = @ + 1]
         /\ IF cancelled
            THEN /\ wpc' = [wpc EXCEPT ![w] = "exited"]
                 /\ sawCancel' = [sawCancel EXCEPT ![w] = TRUE]
                 /\ UNCHANGED <<wuser, wres, started>>
            ELSE /\ wpc' = [wpc EXCEPT ![w] = IF mode = "create" THEN "createOrg" ELSE "deleteOrg"]
                 /\ wuser' = [wuser EXCEPT ![w] = u]
                 /\ wres' = [wres EXCEPT ![w] = NewResult(u)]
                 /\ started' = started \cup {u}
                 /\ UNCHANGED sawCancel
    /\ UNCHANGED <<calls, mode, tracing, usePAT, facilitators, templateRepos, allUsers, numWorkers, toSend,
                   orgChanClosed, resultsChan, resultsClosed, cancelled,
                   published, lateSend, sent,
                   aggPc, results, resultCount, successCount, failureCount, reports, emitted, retErr>>

\* the range loop ends: orgChan is closed and drained
WorkerExit(w) ==
    /\ wpc[w] = "idle"
    /\ FirstIdle(w)
    /\ orgChan = <<>>
    /\ orgChanClosed
    /\ wpc' = [wpc EXCEPT ![w] = "exited"]
    /\ UNCHANGED <<calls, mode, tracing, usePAT, facilitators, templateRepos, allUsers, numWorkers, toSend,
                   orgChan, orgChanClosed, resultsChan, resultsClosed, cancelled,
                   wuser, wres, sawCancel,
                   dequeues, started, published, lateSend, sent,
                   aggPc, results, resultCount, successCount, failureCount, reports, emitted, retErr>>

\* the step that follows the app installation (lines 77-98): the worker grants
\* admin unless the user is a facilitator or there is no facilitator
NeedsAdminGrant(u) == u \notin facilitators /\ facilitators # {}
PcAfterInstall(u) == IF NeedsAdminGrant(u) THEN "addMember" ELSE "repos"

\* mutant: the failure branch of CreateOrg lacks its send and its `continue`
WorkerCreateOrg_NoContinue(w) ==
    /\ wpc[w] = "createOrg"
    /\ \E ok \in RemoteOutcomes :
         /\ Called(w, "createOrg", 0, ok)
         /\ wres' = [wres EXCEPT ![w].orgName = IF ok THEN OrgNameOf(wuser[w]) ELSE @,
                                 ![w].error = IF ok THEN @ ELSE "Failed to create organization"]
         /\ wpc' = [wpc EXCEPT ![w] = IF usePAT THEN PcAfterInstall(wuser[w])
                                                  ELSE "installApp"]
         /\ UNCHANGED <<wuser, resultsChan, published, lateSend, sent>>
    /\ UNCHANGED <<mode, tracing, usePAT, facilitators, templateRepos, allUsers, numWorkers, toSend,
                   orgChan, orgChanClosed, resultsClosed, cancelled,
                   sawCancel, dequeues, started,
                   aggPc, results, resultCount, successCount, failureCount, reports, emitted, retErr>>

\* mutant: the installation is attempted whatever credential the run has
WorkerCreateOrg_AlwaysInstall(w) ==
    /\ wpc[w] = "createOrg"
    /\ \E ok \in RemoteOutcomes :
         /\ Called(w, "createOrg", 0, ok)
         /\ IF ok
            THEN /\ wres' = [wres EXCEPT ![w].orgName = OrgNameOf(wuser[w])]
                 /\ wpc' = [wpc EXCEPT ![w] = "installApp"]
                 /\ UNCHANGED <<wuser, resultsChan, published, lateSend, sent>>
            ELSE /\ SendResult(wuser[w], [wres[w] EXCEPT !.error = "Failed to create organization"])
                 /\ wres' = [wres EXCEPT ![w] = NoResult]
                 /\ wuser' = [wuser EXCEPT ![w] = 0]
                 /\ wpc' = [wpc EXCEPT ![w] = "idle"]
    /\ UNCHANGED <<mode, tracing, usePAT, facilitators, templateRepos, allUsers, numWorkers, toSend,
                   orgChan, orgChanClosed, resultsClosed, cancelled,
                   sawCancel, dequeues, started,
                   aggPc, results, resultCount, successCount, failureCount, reports, emitted, retErr>>

\* organization, err := enterprise.CreateOrg(ctx, logger, user)  (lines 48-58)
WorkerCreateOrg(w) ==
    /\ wpc[w] = "createOrg"
    /\ \E ok \in RemoteOutcomes :
         /\ Called(w, "createOrg", 0, ok)
         /\ IF ok
            THEN /\ wres' = [wres EXCEPT ![w].orgName = OrgNameOf(wuser[w])]
                 /\ wpc' = [wpc EXCEPT ![w] = IF usePAT THEN PcAfterInstall(wuser[w])
                                                          ELSE "installApp"]
                 /\ UNCHANGED <<wuser, resultsChan, published, lateSend, sent>>
            ELSE /\ SendResult(wuser[w], [wres[w] EXCEPT !.error = "Failed to create organization"])
                 /\ wres' = [wres EXCEPT ![w] = NoResult]
                 /\ wuser' = [wuser EXCEPT ![w] = 0]
                 /\ wpc' = [wpc EXCEPT ![w] = "idle"]
    /\ UNCHANGED <<mode, tracing, usePAT, facilitators, templateRepos, allUsers, numWorkers, toSend,
                   orgChan, orgChanClosed, resultsClosed, cancelled,
                   sawCancel, dequeues, started,
                   aggPc, results, resultCount, successCount, failureCount, reports, emitted, retErr>>

\* mutant: a failed installation does `continue` without sending the result
WorkerInstallApp_NoSend(w) ==
    /\ wpc[w] = "installApp"
    /\ \E ok \in RemoteOutcomes :
         /\ Called(w, "installApp", 0, ok)
         /\ IF ok
            THEN /\ wpc' = [wpc EXCEPT ![w] = PcAfterInstall(wuser[w])]
                 /\ UNCHANGED <<wuser, wres>>
            ELSE /\ wres' = [wres EXCEPT ![w] = NoResult]
                 /\ wuser' = [wuser EXCEPT ![w] = 0]
                 /\ wpc' = [wpc EXCEPT ![w] = "idle"]
    /\ UNCHANGED <<mode, tracing, usePAT, facilitators, templateRepos, allUsers, numWorkers, toSend,
                   orgChan, orgChanClosed, resultsChan, resultsClosed, cancelled,
                   sawCancel, dequeues, started, published, lateSend, sent,
                   aggPc, results, resultCount, successCount, failureCount, reports, emitted, retErr>>

\* if ctx.Value(config.TokenKey) == nil { enterprise.InstallAppOnOrg(...) }  (lines 61-75)
WorkerInstallApp(w) ==
    /\ wpc[w] = "installApp"
    /\ \E ok \in RemoteOutcomes :
         /\ Called(w, "installApp", 0, ok)
         /\ IF ok
            THEN /\ wpc' = [wpc EXCEPT ![w] = PcAfterInstall(wuser[w])]
                 /\ UNCHANGED <<wuser, wres, resultsChan, published, lateSend, sent>>
            ELSE /\ SendResult(wuser[w], [wres[w] EXCEPT !.error = "Failed to install app"])
                 /\ wres' = [wres EXCEPT ![w] = NoResult]
                 /\ wuser' = [wuser EXCEPT ![w] = 0]
                 /\ wpc' = [wpc EXCEPT ![w] = "idle"]
    /\ UNCHANGED <<mode, tracing, usePAT, facilitators, templateRepos, allUsers, numWorkers, toSend,
                   orgChan, orgChanClosed, resultsClosed, cancelled,
                   sawCancel, dequeues, started,
                   aggPc, results, resultCount, successCount, failureCount, reports, emitted, retErr>>

\* mutant: a failed AddOrgMember ends the unit with a failed record
WorkerAddMember_Fatal(w) ==
    /\ wpc[w] = "addMember"
    /\ \E ok \in RemoteOutcomes :
         /\ Called(w, "addMember", 0, ok)
         /\ IF ok
            THEN /\ wpc' = [wpc EXCEPT ![w] = "repos"]
                 /\ UNCHANGED <<wuser, wres, resultsChan, published, lateSend, sent>>
            ELSE /\ SendResult(wuser[w], [wres[w] EXCEPT !.error = "Failed to add org member"])
                 /\ wres' = [wres EXCEPT ![w] = NoResult]
                 /\ wuser' = [wuser EXCEPT ![w] = 0]
                 /\ wpc' = [wpc EXCEPT ![w] = "idle"]
    /\ UNCHANGED <<mode, tracing, usePAT, facilitators, templateRepos, allUsers, numWorkers, toSend,
                   orgChan, orgChanClosed, resultsClosed, cancelled,
                   sawCancel, dequeues, started,
                   aggPc, results, resultCount, successCount, failureCount, reports, emitted, retErr>>

\* api.AddOrgMember(ctx, logger, orgName, user, "admin"): a failure is only logged (87-96)
WorkerAddMember(w) ==
    /\ wpc[w] = "addMember"
    /\ \E ok \in RemoteOutcomes :
         /\ Called(w, "addMember", 0, ok)
         /\ wpc' = [wpc EXCEPT ![w] = "repos"]
    /\ UNCHANGED <<mode, tracing, usePAT, facilitators, templateRepos, allUsers, numWorkers, toSend,
                   orgChan, orgChanClosed, resultsChan, resultsClosed, cancelled,
                   wuser, wres, sawCancel,
                   dequeues, started, published, lateSend, sent,
                   aggPc, results, resultCount, successCount, failureCount, reports, emitted, retErr>>

\* mutant: after a failed creation the remaining templates are reported as failed
\* without an attempt
WorkerCreateRepo_SkipAfterFailure(w) ==
    /\ wpc[w] = "repos"
    /\ Len(wres[w].repos) < templateRepos
    /\ LET n == Len(wres[w].repos)
           skip == n > 0 /\ wres[w].repos[n].status = "failed"
       IN \E ok \in (IF skip THEN {FALSE} ELSE RemoteOutcomes) :
            /\ IF skip THEN UNCHANGED calls ELSE Called(w, "createRepo", n + 1, ok)
            /\ wres' = [wres EXCEPT ![w].repos =
                          Append(@, [name |-> Len(@) + 1,
                                     status |-> IF ok THEN "success" ELSE "failed"])]
    /\ UNCHANGED <<mode, tracing, usePAT, facilitators, templateRepos, allUsers, numWorkers, toSend,
                   orgChan, orgChanClosed, resultsChan, resultsClosed, cancelled,
                   wpc, wuser, sawCancel,
                   dequeues, started, published, lateSend, sent,
                   aggPc, results, resultCount, successCount, failureCount, reports, emitted, retErr>>

\* for _, repoConfig := range templateRepos { ... CreateRepoFromTemplate ... }  (101-122)
\* one step is one call of CreateRepoFromTemplate, retries included (see SpecRetry)
WorkerCreateRepo(w) ==
    /\ wpc[w] = "repos"
    /\ Len(wres[w].repos) < templateRepos
    /\ \E ok \in RemoteOutcomes :
         /\ Called(w, "createRepo", Len(wres[w].repos) + 1, ok)
         /\ wres' = [wres EXCEPT ![w].repos =
                       Append(@, [name |-> Len(@) + 1,
                                  status |-> IF ok THEN "success" ELSE "failed"])]
    /\ UNCHANGED <<mode, tracing, usePAT, facilitators, templateRepos, allUsers, numWorkers, toSend,
                   orgChan, orgChanClosed, resultsChan, resultsClosed, cancelled,
                   wpc, wuser, sawCancel,
                   dequeues, started, published, lateSend, sent,
                   aggPc, results, resultCount, successCount, failureCount, reports, emitted, retErr>>

\* mutant: the record is a success only when every repository was created
WorkerFinish_AllOrNothing(w) ==
    /\ wpc[w] = "repos"
    /\ Len(wres[w].repos) = templateRepos
    /\ SendResult(wuser[w],
                  [wres[w] EXCEPT !.status =
                      IF \A i \in 1..Len(wres[w].repos) : wres[w].repos[i].status = "success"
                      THEN "success" ELSE "failed"])
    /\ wres' = [wres EXCEPT ![w] = NoResult]
    /\ wuser' = [wuser EXCEPT ![w] = 0]
    /\ wpc' = [wpc EXCEPT ![w] = "idle"]
    /\ UNCHANGED <<calls, mode, tracing, usePAT, facilitators, templateRepos, allUsers, numWorkers, toSend,
                   orgChan, orgChanClosed, resultsClosed, cancelled,
                   sawCancel, dequeues, started,
                   aggPc, results, resultCount, successCount, failureCount, reports, emitted, retErr>>

\* result.Status = "success"; resultsChan <- result  (124-126)
WorkerFinish(w) ==
    /\ wpc[w] = "repos"
    /\ Len(wres[w].repos) = templateRepos
    /\ SendResult(wuser[w], [wres[w] EXCEPT !.status = "success"])
    /\ wres' = [wres EXCEPT ![w] = NoResult]
    /\ wuser' = [wuser EXCEPT ![w] = 0]
    /\ wpc' = [wpc EXCEPT ![w] = "idle"]
    /\ UNCHANGED <<calls, mode, tracing, usePAT, facilitators, templateRepos, allUsers, numWorkers, toSend,
                   orgChan, orgChanClosed, resultsClosed, cancelled,
                   sawCancel, dequeues, started,
                   aggPc, results, resultCount, successCount, failureCount, reports, emitted, retErr>>

\* mutant: the failure branch lacks its `continue`, so a failed deletion sends the
\* failed report and then the success report as well
WorkerDeleteOrg_NoContinue(w) ==
    /\ wpc[w] = "deleteOrg"
    /\ \E ok \in RemoteOutcomes :
         /\ Called(w, "deleteOrg", 0, ok)
         /\ IF ok
            THEN SendResult(wuser[w], [wres[w] EXCEPT !.status = "success"])
            ELSE /\ resultsChan' = resultsChan \o
                       << [wres[w] EXCEPT !.status = "failed", !.error = "delete failed"],
                          [wres[w] EXCEPT !.status = "success", !.error = "delete failed"] >>
                 /\ published' = [published EXCEPT ![wuser[w]] = @ + 2]
                 /\ lateSend' = (lateSend \/ resultsClosed)
                 /\ sent' = sent \o
                       << [wres[w] EXCEPT !.status = "failed", !.error = "delete failed"],
                          [wres[w] EXCEPT !.status = "success", !.error = "delete failed"] >>
    /\ wres' = [wres EXCEPT ![w] = NoResult]
    /\ wuser' = [wuser EXCEPT ![w] = 0]
    /\ wpc' = [wpc EXCEPT ![w] = "idle"]
    /\ UNCHANGED <<mode, tracing, usePAT, facilitators, templateRepos, allUsers, numWorkers, toSend,
                   orgChan, orgChanClosed, resultsClosed, cancelled,
                   sawCancel, dequeues, started,
                   aggPc, results, resultCount, successCount, failureCount, reports, emitted, retErr>>

\* api.DeleteOrg(ctx, logger, orgName) and the send of the report (lab_service 577-592,
\* delete_batch 180-194)
WorkerDeleteOrg(w) ==
    /\ wpc[w] = "deleteOrg"
    /\ \E ok \in RemoteOutcomes :
         /\ Called(w, "deleteOrg", 0, ok)
         /\ SendResult(wuser[w],
                       IF ok THEN [wres[w] EXCEPT !.status = "success"]
                             ELSE [wres[w] EXCEPT !.status = "failed", !.error = "delete failed"])
    /\ wres' = [wres EXCEPT ![w] = NoResult]
    /\ wuser' = [wuser EXCEPT ![w] = 0]
    /\ wpc' = [wpc EXCEPT ![w] = "idle"]
    /\ UNCHANGED <<mode, tracing, usePAT, facilitators, templateRepos, allUsers, numWorkers, toSend,
                   orgChan, orgChanClosed, resultsClosed, cancelled,
                   sawCancel, dequeues, started,
                   aggPc, results, resultCount, successCount, failureCount, reports, emitted, retErr>>

\* mutant: every record received is counted as a success
AggReceive_NoFailureCount ==
    /\ aggPc = "loop"
    /\ orgChanClosed
    /\ resultsChan # <<>>
    /\ LET res == Head(resultsChan) IN
         /\ resultsChan' = Tail(resultsChan)
         /\ results' = Append(results, res)
         /\ resultCount' = resultCount + 1
         /\ successCount' = successCount + 1
         /\ UNCHANGED failureCount
    /\ UNCHANGED <<calls, mode, tracing, usePAT, facilitators, templateRepos, allUsers, numWorkers, toSend,
                   orgChan, orgChanClosed, resultsClosed, cancelled,
                   wpc, wuser, wres, sawCancel,
                   dequeues, started, published, lateSend, sent,
                   aggPc, reports, emitted, retErr>>

(***************************************************************************)
(* The aggregator: the select loop of CreateLabEnvironment (267-337) and   *)
(* DestroyLabEnvironment (509-552), the range loop of delete-batch.        *)
(***************************************************************************)
\* case res, ok := <-resultsChan with ok = true
AggReceive ==
    /\ aggPc = "loop"
    /\ orgChanClosed
    /\ resultsChan # <<>>
    /\ LET res == Head(resultsChan) IN
         /\ resultsChan' = Tail(resultsChan)
         /\ results' = Append(results, res)
         /\ resultCount' = resultCount + 1
         /\ IF res.status = "success"
            THEN successCount' = successCount + 1 /\ UNCHANGED failureCount
            ELSE failureCount' = failureCount + 1 /\ UNCHANGED successCount
    /\ UNCHANGED <<calls, mode, tracing, usePAT, facilitators, templateRepos, allUsers, numWorkers, toSend,
                   orgChan, orgChanClosed, resultsClosed, cancelled,
                   wpc, wuser, wres, sawCancel,
                   dequeues, started, published, lateSend, sent,
                   aggPc, reports, emitted, retErr>>

\* the report as the run has it when it generates the files: LabReport built from
\* results and the two counters (lines 283-305), DeleteLabReport accumulated in the
\* loop (lines 533-540)
Report == [organizations |-> results,
           successCount |-> successCount,
           failureCount |-> failureCount]

\* mutant: the closed channel is not followed by the comparison of the two numbers
ReturnOnClose_NoCheck == IF failureCount > 0 THEN "failures" ELSE "nil"

\* mutant: a failed record makes the provisioning run return an error
ReturnOnClose_FailuresAreErrors ==
    IF failureCount > 0 THEN "failures"
    ELSE IF mode = "create" /\ resultCount # Cardinality(allUsers) /\ cancelled THEN "ctxErr"
    ELSE "nil"

\* what the run returns once it has seen the channel closed: CreateLabEnvironment
\* compares resultCount with len(allUsersToProvision) and returns ctx.Err() when they
\* differ; DestroyLabEnvironment and delete-batch look at FailureCount only
ReturnOnClose ==
    IF mode = "create"
    THEN IF resultCount = Cardinality(allUsers) THEN "nil"
         ELSE IF cancelled THEN "ctxErr" ELSE "nil"
    ELSE IF failureCount > 0 THEN "failures" ELSE "nil"

\* case res, ok := <-resultsChan with ok = false: report, then return
AggClosed ==
    /\ aggPc = "loop"
    /\ resultsChan = <<>>
    /\ resultsClosed
    /\ reports' = reports + 1
    /\ emitted' = Append(emitted, Report)
    /\ retErr' = ReturnOnClose
    /\ aggPc' = "closed"
    /\ UNCHANGED <<calls, mode, tracing, usePAT, facilitators, templateRepos, allUsers, numWorkers, toSend,
                   orgChan, orgChanClosed, resultsChan, resultsClosed, cancelled,
                   wpc, wuser, wres, sawCancel,
                   dequeues, started, published, lateSend, sent,
                   results, resultCount, successCount, failureCount>>

\* mutant: the deadline branch of the deprovisioning run returns without its report
AggDeadline_NoReport ==
    /\ aggPc = "loop"
    /\ orgChanClosed
    /\ cancelled
    /\ mode # "batch"
    /\ retErr' = "ctxErr"
    /\ aggPc' = "deadline"
    /\ UNCHANGED <<calls, mode, tracing, usePAT, facilitators, templateRepos, allUsers, numWorkers, toSend,
                   orgChan, orgChanClosed, resultsChan, resultsClosed, cancelled,
                   wpc, wuser, wres, sawCancel,
                   dequeues, started, published, lateSend, sent,
                   results, resultCount, successCount, failureCount, reports, emitted>>

\* case <-ctx.Done(): (delete-batch ranges over resultsChan and has no such case)
AggDeadline ==
    /\ aggPc = "loop"
    /\ orgChanClosed
    /\ cancelled
    /\ mode # "batch"
    /\ reports' = IF mode = "destroy" THEN reports + 1 ELSE reports
    /\ emitted' = IF mode = "destroy" THEN Append(emitted, Report) ELSE emitted
    /\ retErr' = "ctxErr"
    /\ aggPc' = "deadline"
    /\ UNCHANGED <<calls, mode, tracing, usePAT, facilitators, templateRepos, allUsers, numWorkers, toSend,
                   orgChan, orgChanClosed, resultsChan, resultsClosed, cancelled,
                   wpc, wuser, wres, sawCancel,
                   dequeues, started, published, lateSend, sent,
                   results, resultCount, successCount, failureCount>>

(***************************************************************************)
(* Properties of the worker pool.                                          *)
(***************************************************************************)
RECURSIVE SumPublished(_)
SumPublished(S) ==
    IF S = {} THEN 0
    ELSE LET u == CHOOSE x \in S : TRUE IN published[u] + SumPublished(S \ {u})

\* the number of records sent on resultsChan so far
TotalPublished == SumPublished(allUsers)

\* the records sent so far that have not been lost: received, then still buffered
RecordsInOrder == results \o resultsChan

AllWorkersExited == \A w \in Workers : wpc[w] = "exited"
Processing(w) == wpc[w] \notin {"idle", "exited"}

\* C1: in a provisioning run in which ctx is never cancelled, when resultsChan is
\* closed exactly len(allUsersToProvision) records have been sent on it, exactly one
\* for each identity, and none after the close.
C1_Completeness ==
    (mode = "create" /\ resultsClosed /\ ~cancelled) =>
        /\ \A u \in allUsers : published[u] = 1
        /\ TotalPublished = Cardinality(allUsers)
        /\ Len(RecordsInOrder) = Cardinality(allUsers)
        /\ \A u \in allUsers :
             Cardinality({i \in 1..Len(RecordsInOrder) : RecordsInOrder[i].user = u}) = 1
        /\ ~lateSend

\* a provisioning run over two or more identities ended without cancellation, with
\* one identity failed and another one provisioned
C1_Witness ==
    /\ mode = "create"
    /\ resultsClosed
    /\ ~cancelled
    /\ Cardinality(allUsers) >= 2
    /\ aggPc = "closed"
    /\ successCount >= 1
    /\ failureCount >= 1

\* C2 as stated: in every run, cancelled or not, no unit is received from orgChan
\* twice, and every unit received from orgChan has exactly one record sent for it by
\* the time the run is over (never zero, never two).
C2_ExactlyOneRecordPerRemovedUnit ==
    \A u \in allUsers :
        /\ dequeues[u] <= 1
        /\ published[u] <= 1
        /\ resultsClosed => (dequeues[u] = 1 => published[u] = 1)

\* C2 amended: no unit is received from orgChan twice and no unit has two records;
\* a unit whose worker passed the ctx.Done() check has exactly one record when the
\* run is over; a unit received by a worker that found ctx cancelled at that check
\* has none; without cancellation every unit is received once and has one record.
C2_OneRecordPerStartedUnit ==
    \A u \in allUsers :
        /\ dequeues[u] <= 1
        /\ published[u] <= dequeues[u]
        /\ u \in started => dequeues[u] = 1
        /\ (dequeues[u] = 1 /\ u \notin started) => (cancelled /\ published[u] = 0)
        /\ resultsClosed => published[u] = (IF u \in started THEN 1 ELSE 0)
        /\ (resultsClosed /\ ~cancelled) => (dequeues[u] = 1 /\ published[u] = 1)

\* a finished run in which one unit was received and dropped on cancellation while
\* another unit got its record
C2_Witness ==
    /\ resultsClosed
    /\ \E u \in allUsers : dequeues[u] = 1 /\ published[u] = 0
    /\ \E v \in allUsers : dequeues[v] = 1 /\ published[v] = 1

\* C8: resultsChan is closed only after every worker has exited; no record is sent on
\* or after the closed channel; and when the aggregator sees the channel closed it
\* has received every record that was sent.
C8_CloseAfterWorkersExit ==
    /\ resultsClosed => AllWorkersExited
    /\ ~lateSend
    /\ aggPc = "closed" =>
         /\ resultsChan = <<>>
         /\ resultCount = TotalPublished
         /\ Len(results) = TotalPublished

\* the aggregator saw the close after receiving the records of two or more workers' units
C8_Witness ==
    /\ aggPc = "closed"
    /\ resultCount >= 2
    /\ \E u \in allUsers : published[u] = 1

\* C9: at most len(allUsers) records are produced; a worker that has observed the
\* cancellation has exited and holds no unit; every unit whose processing has started
\* (it passed the ctx.Done() check, so it started before any cancellation) either
\* has its record or is still being processed, and has its record when the run is over.
C9_Cancellation ==
    /\ TotalPublished <= Cardinality(allUsers)
    /\ \A w \in Workers : sawCancel[w] => (cancelled /\ wpc[w] = "exited" /\ wuser[w] = 0)
    /\ \A u \in started :
         \/ published[u] = 1
         \/ \E w \in Workers : wuser[w] = u /\ Processing(w)
    /\ resultsClosed => \A u \in started : published[u] = 1
    /\ \A u \in allUsers \ started : published[u] = 0

\* ctx was cancelled while one worker was processing a unit; another worker has
\* observed the cancellation and stopped, and the first one is still at work
C9_Witness ==
    /\ cancelled
    /\ \E w \in Workers : sawCancel[w]
    /\ \E w \in Workers : Processing(w) /\ wuser[w] \in started

\* C17: when CreateLabEnvironment returns on the closed channel it returns nil exactly
\* when the number of records received equals the number of units dispatched; when
\* the two differ the context has been cancelled and it returns the context's error.
C17_CreateIntegrityCheck ==
    (mode = "create" /\ aggPc = "closed") =>
        /\ retErr = "nil" <=> resultCount = Cardinality(allUsers)
        /\ resultCount # Cardinality(allUsers) =>
              /\ resultCount < Cardinality(allUsers)
              /\ cancelled
              /\ retErr = "ctxErr"

\* a provisioning run was cancelled, one unit was dropped by a worker that stopped,
\* another one's record was received, and the run returned the context's error
C17_Witness ==
    /\ mode = "create"
    /\ aggPc = "closed"
    /\ resultCount >= 1
    /\ resultCount < Cardinality(allUsers)
    /\ retErr = "ctxErr"

\* C34: no send blocks: the dispatcher finds room in the work queue for every unit it
\* has left, and a worker that is processing a unit finds room in the result channel,
\* the records received, buffered and still to come never exceeding the capacity K;
\* so the workers finish and exit also after the aggregator has returned.
C34_NoBlockingSend ==
    /\ ChanCapacity = Cardinality(allUsers)
    /\ Len(orgChan) + Cardinality(toSend) <= ChanCapacity
    /\ Len(sent) <= ChanCapacity
    /\ Len(results) + Len(resultsChan)
          + Cardinality({w \in Workers : Processing(w)}) <= ChanCapacity
    /\ \A w \in Workers : Processing(w) => Len(resultsChan) < ChanCapacity
    /\ toSend # {} => Len(orgChan) < ChanCapacity

\* the aggregator returned on ctx.Done(); the workers went on, left their records in
\* the result channel and exited
C34_Witness ==
    /\ aggPc = "deadline"
    /\ Cardinality(allUsers) >= 2
    /\ AllWorkersExited
    /\ Len(resultsChan) >= 1
    /\ Len(results) + Len(resultsChan) = Cardinality(allUsers)
    /\ resultsClosed

\* C38: the delete-batch command returns nil only if every organization of the input
\* file has a record of its successful deletion.
C38_BatchNilOnlyIfAllDeleted ==
    (mode = "batch" /\ aggPc = "closed" /\ retErr = "nil") =>
        \A u \in allUsers :
            \E i \in 1..Len(results) :
                results[i].orgName = <<"org", u>> /\ results[i].status = "success"

\* C37: the report DestroyLabEnvironment generates when it takes the ctx.Done() branch
\* holds every record the workers had sent on the result channel before that step.
C37_DeadlineReportComplete ==
    [][(mode = "destroy" /\ aggPc = "loop" /\ aggPc' = "deadline") =>
          (Len(emitted') = 1 /\ emitted'[1].organizations = sent)]_poolVars

\* C18: when DestroyLabEnvironment returns on the closed channel having received fewer
\* records than units were dispatched, it returns an error.
C18_DestroyIntegrityCheck ==
    (mode = "destroy" /\ aggPc = "closed" /\ resultCount < Cardinality(allUsers)) =>
        retErr # "nil"

\* C19: when CreateLabEnvironment returns on ctx.Done() it has generated the report.
C19_CreateDeadlineReport == (mode = "create" /\ aggPc = "deadline") => reports = 1

Successes(seq) == Cardinality({i \in 1..Len(seq) : seq[i].status = "success"})
Failures(seq) == Cardinality({i \in 1..Len(seq) : seq[i].status # "success"})

\* the unit a record is about: the identity, or the organization in delete-batch
\* (whose records carry no user)
UnitOf(rec) == IF mode = "batch" THEN rec.orgName ELSE rec.user

\* C21: aggregator counters. Throughout the aggregation loop successCount +
\* failureCount is the number of records received so far, each record received has
\* incremented exactly one of the two counters according to its status, and a report
\* lists exactly the records received, once each, in the order of their arrival.
C21_AggregatorCounters ==
    /\ resultCount = Len(results)
    /\ successCount + failureCount = resultCount
    /\ successCount = Successes(results)
    /\ failureCount = Failures(results)
    \* the records received are the first records sent, in the order of the sends
    /\ Len(results) <= Len(sent)
    /\ \A i \in 1..Len(results) : results[i] = sent[i]
    /\ \A i \in 1..Len(results), j \in 1..Len(results) :
          i # j => UnitOf(results[i]) # UnitOf(results[j])
    /\ Len(emitted) = reports
    /\ \A i \in 1..Len(emitted) :
          /\ aggPc # "loop"
          /\ emitted[i].organizations = results
          /\ emitted[i].successCount = Successes(results)
          /\ emitted[i].failureCount = Failures(results)

\* a report with a failure and a success, received in the reverse of the dispatch order
C21_Witness ==
    /\ aggPc = "closed"
    /\ Len(emitted) = 1
    /\ Len(emitted[1].organizations) = 2
    /\ emitted[1].organizations[1].orgName = OrgNameOf(2)
    /\ emitted[1].organizations[1].status = "failed"
    /\ emitted[1].organizations[2].orgName = OrgNameOf(1)
    /\ emitted[1].organizations[2].status = "success"
    /\ emitted[1].successCount = 1
    /\ emitted[1].failureCount = 1

\* C32 as stated: whenever CreateLabEnvironment has received all K records it
\* completes with a report and returns nil.
C32_NilWheneverAllReceived ==
    (mode = "create" /\ aggPc # "loop" /\ allUsers # {}
                     /\ resultCount = Cardinality(allUsers)) =>
        /\ retErr = "nil"
        /\ reports = 1

\* C32 amended: when CreateLabEnvironment sees the result channel closed having
\* received all K records, it has generated the report and returns nil, whatever the
\* statuses of the records; when it leaves on ctx.Done() it returns the context's error
\* without a report, even with all K records received; and without cancellation every
\* identity has its record, whatever happened to the other identities.
C32_FailuresAreNotRunErrors ==
    mode = "create" =>
        /\ (aggPc = "closed" /\ resultCount = Cardinality(allUsers)) =>
              /\ retErr = "nil"
              /\ reports = 1
              /\ emitted[1].failureCount = Failures(results)
              /\ emitted[1].successCount + emitted[1].failureCount = Cardinality(allUsers)
        /\ aggPc = "deadline" => (retErr = "ctxErr" /\ reports = 0 /\ cancelled)
        /\ (aggPc = "closed" /\ ~cancelled) =>
              /\ resultCount = Cardinality(allUsers)
              /\ \A u \in allUsers : \E i \in 1..Len(results) : results[i].user = u

\* a provisioning run over two or more identities all of which failed returned nil
\* with its report
C32_Witness ==
    /\ mode = "create"
    /\ aggPc = "closed"
    /\ Cardinality(allUsers) >= 2
    /\ failureCount = Cardinality(allUsers)
    /\ retErr = "nil"
    /\ reports = 1

\* the number of times identity u is in the queue
InQueue(u) == Cardinality({i \in 1..Len(orgChan) : orgChan[i] = u})

\* C23 as stated: every unit is enqueued before any worker dequeues a unit.
C23_EnqueueBeforeDequeue ==
    (\E u \in allUsers : dequeues[u] > 0) => toSend = {}

\* C23, amended: the workers run while the dispatch loop sends, so a unit may be
\* dequeued while later units are still to be enqueued; every unit is enqueued once
\* and is dequeued only after its own enqueue; the queue is closed after the last
\* enqueue, before the aggregation loop begins, and nothing is added after the close.
C23_EnqueueThenClose ==
    /\ \A u \in allUsers :
          (IF u \in toSend THEN 1 ELSE 0) + InQueue(u) + dequeues[u] = 1
    /\ orgChanClosed => toSend = {}
    /\ (resultCount > 0 \/ aggPc # "loop" \/ resultsClosed) => orgChanClosed

\* a unit has been dequeued and processed while another is still to be enqueued
C23_Witness ==
    /\ ~orgChanClosed
    /\ toSend # {}
    /\ \E u \in allUsers : dequeues[u] = 1 /\ published[u] = 1

\* ---- the provisioning procedure of one identity (ProvisionOrgResources, 39-126) ----

\* the calls of kind op made for identity u, in order
CallsOf(u, op) == SelectSeq(calls[u], LAMBDA c : c.op = op)

\* the records published for identity u
RecordsOf(u) == SelectSeq(RecordsInOrder, LAMBDA r : r.user = u)

\* the identity a worker is busy with, if any
InProgress(u) == \E w \in Workers : wuser[w] = u

\* result.Repos as the loop of lines 101-122 builds it from the outcomes of its calls
ReposFromCalls(cs) ==
    [i \in 1..Len(cs) |-> [name |-> cs[i].arg,
                           status |-> IF cs[i].ok THEN "success" ELSE "failed"]]

\* the record ProvisionOrgResources sends for identity u, from the outcomes of the
\* calls made for u itself (lines 39-126)
RecordFromCalls(u) ==
    LET inst == CallsOf(u, "installApp") IN
    IF ~calls[u][1].ok
    THEN [user |-> u, orgName |-> <<>>, status |-> "failed",
          error |-> "Failed to create organization", repos |-> <<>>]
    ELSE IF inst # <<>> /\ ~inst[1].ok
    THEN [user |-> u, orgName |-> OrgNameOf(u), status |-> "failed",
          error |-> "Failed to install app", repos |-> <<>>]
    ELSE [user |-> u, orgName |-> OrgNameOf(u), status |-> "success",
          error |-> "", repos |-> ReposFromCalls(CallsOf(u, "createRepo"))]

\* C12: partial-failure isolation. The record of every identity is the one that the
\* outcomes of the calls made for that identity alone determine: a failed template
\* of one identity leaves the record of that identity a success with that sub-result
\* failed, and leaves the records of the other identities as they would be had it
\* succeeded.
C12_PartialFailureIsolation ==
    \A i \in 1..Len(RecordsInOrder) :
        LET rec == RecordsInOrder[i] IN
        /\ rec.user \in allUsers
        /\ calls[rec.user] # <<>>
        /\ rec = RecordFromCalls(rec.user)
        /\ (\E j \in 1..Len(rec.repos) : rec.repos[j].status = "failed")
              => rec.status = "success"

\* A's second template failed and its record is a success; B's record is the one of
\* a run where everything succeeded
C12_Witness ==
    /\ Cardinality(allUsers) = 2
    /\ templateRepos = 2
    /\ \E a \in allUsers, b \in allUsers :
         /\ a # b
         /\ Len(RecordsOf(a)) = 1
         /\ Len(RecordsOf(b)) = 1
         /\ RecordsOf(a)[1].status = "success"
         /\ RecordsOf(a)[1].repos = <<[name |-> 1, status |-> "success"],
                                      [name |-> 2, status |-> "failed"]>>
         /\ RecordsOf(b)[1] = [user |-> b, orgName |-> OrgNameOf(b), status |-> "success",
                               error |-> "",
                               repos |-> <<[name |-> 1, status |-> "success"],
                                           [name |-> 2, status |-> "success"]>>]

\* C13: the creation is attempted for every configured template, one after the other
\* in configuration order, whatever the earlier outcomes; the sub-results of a record
\* that reached the loop hold one entry per template, in that order, each a success
\* exactly when its own creation succeeded.
C13_EveryTemplateAttempted ==
    /\ \A u \in allUsers :
         LET rc == CallsOf(u, "createRepo") IN
         /\ Len(rc) <= templateRepos
         /\ \A i \in 1..Len(rc) : rc[i].arg = i
         \* the attempts are the last calls made for the identity
         /\ \A i \in 1..Len(calls[u]) :
               calls[u][i].op = "createRepo"
                  => \A j \in i..Len(calls[u]) : calls[u][j].op = "createRepo"
    /\ \A w \in Workers :
         wpc[w] = "repos" => Len(wres[w].repos) = Len(CallsOf(wuser[w], "createRepo"))
    /\ \A i \in 1..Len(RecordsInOrder) :
         LET rec == RecordsInOrder[i]
             rc == CallsOf(rec.user, "createRepo")
         IN IF rec.status = "success"
            THEN /\ Len(rec.repos) = templateRepos
                 /\ Len(rc) = templateRepos
                 /\ \A j \in 1..templateRepos :
                      /\ rec.repos[j].name = j
                      /\ rec.repos[j].status = "success" <=> rc[j].ok
                      /\ rec.repos[j].status \in {"success", "failed"}
            ELSE rec.repos = <<>> /\ rc = <<>>

\* the first template failed and the second one was attempted and created
C13_Witness ==
    /\ templateRepos = 2
    /\ \E i \in 1..Len(RecordsInOrder) :
         /\ RecordsInOrder[i].repos = <<[name |-> 1, status |-> "failed"],
                                        [name |-> 2, status |-> "success"]>>
         /\ CallsOf(RecordsInOrder[i].user, "createRepo")
               = <<[op |-> "createRepo", arg |-> 1, ok |-> FALSE],
                   [op |-> "createRepo", arg |-> 2, ok |-> TRUE]>>

\* C14: when CreateOrg fails the record is Failed with the reason and no sub-result,
\* no other operation is invoked for the identity, and the worker is released for
\* the next unit.
C14_CreateOrgFailure ==
    \A u \in allUsers :
        (calls[u] # <<>> /\ ~calls[u][1].ok) =>
            /\ calls[u] = <<[op |-> "createOrg", arg |-> 0, ok |-> FALSE]>>
            /\ ~InProgress(u)
            /\ published[u] = 1
            /\ \A i \in 1..Len(RecordsInOrder) :
                 RecordsInOrder[i].user = u =>
                    /\ RecordsInOrder[i].status = "failed"
                    /\ RecordsInOrder[i].error = "Failed to create organization"
                    /\ RecordsInOrder[i].repos = <<>>

\* the first unit failed at CreateOrg, its record is out, and the first worker is
\* busy with the second unit
C14_Witness ==
    /\ Cardinality(allUsers) = 2
    /\ \E u \in allUsers, v \in allUsers :
         /\ u # v
         /\ calls[u] = <<[op |-> "createOrg", arg |-> 0, ok |-> FALSE]>>
         /\ Len(RecordsOf(u)) = 1
         /\ RecordsOf(u)[1].status = "failed"
         /\ wuser[1] = v
         /\ calls[v] # <<>>
         /\ calls[v][1].ok
         /\ wpc[2] = "idle"
         /\ orgChan = <<>>

C16_GrantAdmin ==
    \A u \in allUsers :
        LET grant == CallsOf(u, "addMember") IN
        /\ Len(grant) <= 1
        /\ ~NeedsAdminGrant(u) => grant = <<>>
        /\ (NeedsAdminGrant(u) /\ CallsOf(u, "createRepo") # <<>>) => Len(grant) = 1
        /\ \A i \in 1..Len(RecordsInOrder) :
             (RecordsInOrder[i].user = u /\ RecordsInOrder[i].status = "success") =>
                /\ Len(grant) = (IF NeedsAdminGrant(u) THEN 1 ELSE 0)
                /\ RecordsInOrder[i] =
                      [user |-> u, orgName |-> OrgNameOf(u), status |-> "success",
                       error |-> "",
                       repos |-> ReposFromCalls(CallsOf(u, "createRepo"))]
        /\ grant # <<>> =>
              /\ \/ InProgress(u)
                 \/ Len(CallsOf(u, "createRepo")) = templateRepos
              /\ \A i \in 1..Len(RecordsInOrder) :
                    RecordsInOrder[i].user = u => RecordsInOrder[i].status = "success"

\* a grant failed and the repositories were created all the same
C16_Witness ==
    /\ templateRepos >= 1
    /\ \E u \in allUsers :
         /\ NeedsAdminGrant(u)
         /\ CallsOf(u, "addMember") = <<[op |-> "addMember", arg |-> 0, ok |-> FALSE]>>
         /\ Len(RecordsOf(u)) = 1
         /\ RecordsOf(u)[1].status = "success"
         /\ RecordsOf(u)[1].repos[1].status = "success"

(***************************************************************************)
(* The token cache: globalTokenCache and the authProv closure of           *)
(* NewGithubStyleTransport (package api, src/unnamed/part_000).            *)
(* The callers are workers of a provisioning run, seen through the         *)
(* authenticated calls they make (lab_service.go 48-111).                  *)
(***************************************************************************)
\* number of workers calling the transport concurrently
NumCallers == 2
\* number of identities whose organizations the callers work on
NumCacheUsers == 2
\* number of credential exchanges that may succeed
MaxExchanges == 2
\* number of times the clock is advanced
MaxTicks == 1

\* expires: time.Now().Add(55 * time.Minute)
CacheTTL == 55

\* the lifetimes (minutes from the exchange to InstallationToken.ExpiresAt) of the
\* tokens issued: one hour at the remote API as documented; an hour or half an hour
\* for a remote side that reports other expiries (or a local clock behind its clock)
HourLifetimes == {60}
ReportedLifetimes == {60, 30}

\* the amounts of time (minutes) by which the clock is advanced in one step
TickSteps == {1, CacheTTL}

EnterpriseType == "Enterprise"
OrganizationType == "Organization"

VARIABLES
    staticToken,    \* ctx carries a non-empty config.TokenKey (PAT)
    grants,         \* the lifetimes (minutes) the remote side gives the tokens it issues
    tokens,         \* globalTokenCache.tokens: cache key -> entry (NoEntry: key absent)
    rwWriter,       \* the caller holding globalTokenCache's write lock (0: nobody)
    now,            \* the clock, in minutes
    ticks,          \* number of times the clock was advanced
    cpc,            \* per caller: "idle" | "missed" (past RUnlock, at Lock) | "exchanging"
    cop,            \* per caller: the call under way or last made
    cuser,          \* per caller: the identity its worker is processing (0: none yet)
    ctxOrg,         \* per caller: the OrgKey binding of its worker's ctx variable
    creq,           \* per caller: targetType and ctx.Value(OrgKey) of the call under way
    cret,           \* per caller: what its last call of authProv returned
    taken,          \* the identities some worker has taken from the run's queue
    exchLog,        \* history: the exchanges that succeeded
    nextSerial,     \* history: serial number of the next token the remote side issues
    cacheRead       \* history: some call has looked into globalTokenCache.tokens

cacheVars == <<staticToken, grants, tokens, rwWriter, now, ticks, cpc, cop, cuser, ctxOrg, creq, cret,
               taken, exchLog, nextSerial, cacheRead>>

Callers == 1..NumCallers
CacheUsers == 1..NumCacheUsers

\* a token as the exchange returns it (InstallationToken: Token, ExpiresAt): the
\* installation it is for, its serial number, and the expiry the remote side reports
NoToken == [scope |-> <<>>, serial |-> 0, expiresAt |-> 0]

NoEntry == [token |-> NoToken, expires |-> 0]
\* what authProv returned: status "ok" | "err"; how: "static" (the PAT), "fast" (found
\* under RLock), "doublecheck" (found under Lock), "exchanged"; expires: the expiry of the
\* cache entry the token belongs to; fresh: the clock was before that expiry at the return
NoRet == [status |-> "none", how |-> "", token |-> NoToken,
          key |-> <<>>, expires |-> 0, fresh |-> FALSE]
\* the empty string: ctx carries no OrgKey
NoOrg == <<>>

NoReq == [targetType |-> "", orgName |-> NoOrg]

\* mutant: the cache key leaves the organization out
CacheKey_NoOrg(targetType, orgName) == <<targetType>>

\* cacheKey := targetType; if targetType == OrganizationType and ctx has a non-empty
\* OrgKey, cacheKey = targetType + ":" + orgName   (lines 160-165)
CacheKey(targetType, orgName) ==
    IF targetType = OrganizationType /\ orgName # NoOrg
    THEN <<targetType, ":", orgName>>
    ELSE <<targetType>>

CacheKeys ==
    {CacheKey(EnterpriseType, NoOrg), CacheKey(OrganizationType, NoOrg)}
        \cup {CacheKey(OrganizationType, OrgNameOf(u)) : u \in CacheUsers}

\* the installation the exchange asks a token for (lines 191-210):
\* GetInstallationTokenForOrg(orgName) for an organization named in ctx, otherwise
\* GetInstallationToken(targetType), the first installation of that target type
ExchangeScope(targetType, orgName) ==
    IF targetType = OrganizationType /\ orgName # NoOrg
    THEN <<"org", orgName>>
    ELSE <<"first", targetType>>

\* mutant: an entry is still served at the instant it expires
Live_Inclusive(entry, t) == entry # NoEntry /\ t <= entry.expires

\* ok && time.Now().Before(cached.expires)
Live(entry, t) == entry # NoEntry /\ t < entry.expires

CacheIdle ==
    /\ staticToken = FALSE
    /\ grants = HourLifetimes
    /\ tokens = [k \in CacheKeys |-> NoEntry]
    /\ rwWriter = 0
    /\ now = 0
    /\ ticks = 0
    /\ cpc = [c \in Callers |-> "idle"]
    /\ cop = [c \in Callers |-> "none"]
    /\ cuser = [c \in Callers |-> 0]
    /\ ctxOrg = [c \in Callers |-> NoOrg]
    /\ creq = [c \in Callers |-> NoReq]
    /\ cret = [c \in Callers |-> NoRet]
    /\ taken = {}
    /\ exchLog = {}
    /\ nextSerial = 1
    /\ cacheRead = FALSE

\* the cache at the start of a run, for the given kinds of credential and the given
\* lifetimes of the tokens the remote side issues
InitCacheWith(statics, lifetimes) ==
    /\ staticToken \in statics
    /\ grants = lifetimes
    /\ tokens = [k \in CacheKeys |-> NoEntry]
    /\ rwWriter = 0
    /\ now = 0
    /\ ticks = 0
    /\ cpc = [c \in Callers |-> "idle"]
    /\ cop = [c \in Callers |-> "none"]
    /\ cuser = [c \in Callers |-> 0]
    /\ ctxOrg = [c \in Callers |-> NoOrg]
    /\ creq = [c \in Callers |-> NoReq]
    /\ cret = [c \in Callers |-> NoRet]
    /\ taken = {}
    /\ exchLog = {}
    /\ nextSerial = 1
    /\ cacheRead = FALSE

InitCache == InitCacheWith(BOOLEAN, HourLifetimes)

\* the identity at the head of the run's queue, which holds them in ascending order
NextInQueue == {u \in CacheUsers \ taken : \A v \in CacheUsers \ taken : u <= v}

\* the calls a worker may make next, as <<call, identity>>, after the call it made last:
\*   "enterprise": CreateOrg or InstallAppOnOrg (transport of EnterpriseType)
\*   "addMember":  api.AddOrgMember           (transport of OrganizationType)
\*   "createRepo": CreateRepoFromTemplate     (transport of OrganizationType)
\* A failed call of CreateOrg / InstallAppOnOrg sends the worker to its next identity,
\* one no worker has taken yet (every identity is enqueued once).
NextCalls(c) ==
    LET nextUnit == {<<"enterprise", u>> : u \in NextInQueue}
        same(op) == {<<op, cuser[c]>>}
    IN  CASE cop[c] = "none"       -> nextUnit
          [] cop[c] = "enterprise" ->
                 IF cret[c].status = "err" THEN nextUnit
                 ELSE nextUnit \cup same("enterprise") \cup same("addMember") \cup same("createRepo")
          [] cop[c] = "addMember"  -> nextUnit \cup same("createRepo")
          [] cop[c] = "createRepo" -> nextUnit \cup same("createRepo")

\* the OrgKey binding of the worker's ctx once it has reached the given call:
\* ctx = context.WithValue(ctx, config.OrgKey, orgName) (lab_service.go 75) precedes
\* AddOrgMember and the repository loop; CreateOrg and InstallAppOnOrg run before it
CtxOrgAt(c, op, u) == IF op = "enterprise" THEN ctxOrg[c] ELSE OrgNameOf(u)

\* targetType of the transport the call builds, and the OrgKey its ctx carries:
\* CreateRepoFromTemplate binds OrgKey to org.Login itself (repos.go 19)
RequestOf(c, op, u) ==
    [targetType |-> IF op = "enterprise" THEN EnterpriseType ELSE OrganizationType,
     orgName |-> IF op = "createRepo" THEN OrgNameOf(u) ELSE CtxOrgAt(c, op, u)]

KeyOf(req) == CacheKey(req.targetType, req.orgName)

\* workers that have made no call yet are interchangeable: the lowest-numbered one goes first
FirstFresh(c) == cop[c] = "none" => \A d \in Callers : d < c => cop[d] # "none"

\* mutant: the PAT of the context is not looked at
BeginCall_IgnoreStatic(c) ==
    /\ cpc[c] = "idle"
    /\ FirstFresh(c)
    /\ \E call \in NextCalls(c) :
         LET op == call[1]
             u == call[2]
             req == RequestOf(c, op, u)
             key == KeyOf(req)
         IN  /\ cop' = [cop EXCEPT ![c] = op]
             /\ cuser' = [cuser EXCEPT ![c] = u]
             /\ taken' = taken \cup {u}
             /\ ctxOrg' = [ctxOrg EXCEPT ![c] = CtxOrgAt(c, op, u)]
             /\ IF FALSE
                THEN /\ cret' = [cret EXCEPT ![c] =
                            [status |-> "ok", how |-> "static",
                             token |-> [scope |-> <<"static">>, serial |-> 0, expiresAt |-> 0],
                             key |-> <<>>, expires |-> 0, fresh |-> TRUE]]
                     /\ UNCHANGED <<cpc, creq>>
                ELSE /\ rwWriter = 0
                     /\ IF Live(tokens[key], now)
                        THEN /\ cret' = [cret EXCEPT ![c] =
                                    [status |-> "ok", how |-> "fast",
                                     token |-> tokens[key].token, key |-> key,
                                     expires |-> tokens[key].expires,
                                     fresh |-> now < tokens[key].expires]]
                             /\ UNCHANGED <<cpc, creq>>
                        ELSE /\ cpc' = [cpc EXCEPT ![c] = "missed"]
                             /\ creq' = [creq EXCEPT ![c] = req]
                             /\ cret' = [cret EXCEPT ![c] = NoRet]
    /\ cacheRead' = TRUE
    /\ UNCHANGED <<staticToken, grants, tokens, rwWriter, now, ticks, exchLog, nextSerial>>

\* authProv up to its first return or to the write lock (lines 152-172): the PAT
\* check, then the read of the cache under RLock
BeginCall(c) ==
    /\ cpc[c] = "idle"
    /\ FirstFresh(c)
    /\ \E call \in NextCalls(c) :
         LET op == call[1]
             u == call[2]
             req == RequestOf(c, op, u)
             key == KeyOf(req)
         IN  /\ cop' = [cop EXCEPT ![c] = op]
             /\ cuser' = [cuser EXCEPT ![c] = u]
             /\ taken' = taken \cup {u}
             /\ ctxOrg' = [ctxOrg EXCEPT ![c] = CtxOrgAt(c, op, u)]
             /\ IF staticToken
                THEN /\ cret' = [cret EXCEPT ![c] =
                            [status |-> "ok", how |-> "static",
                             token |-> [scope |-> <<"static">>, serial |-> 0, expiresAt |-> 0],
                             key |-> <<>>, expires |-> 0, fresh |-> TRUE]]
                     /\ UNCHANGED <<cpc, creq>>
                ELSE /\ rwWriter = 0
                     /\ IF Live(tokens[key], now)
                        THEN /\ cret' = [cret EXCEPT ![c] =
                                    [status |-> "ok", how |-> "fast",
                                     token |-> tokens[key].token, key |-> key,
                                     expires |-> tokens[key].expires,
                                     fresh |-> now < tokens[key].expires]]
                             /\ UNCHANGED <<cpc, creq>>
                        ELSE /\ cpc' = [cpc EXCEPT ![c] = "missed"]
                             /\ creq' = [creq EXCEPT ![c] = req]
                             /\ cret' = [cret EXCEPT ![c] = NoRet]
    /\ cacheRead' = (cacheRead \/ ~staticToken)
    /\ UNCHANGED <<staticToken, grants, tokens, rwWriter, now, ticks, exchLog, nextSerial>>

\* mutant: no second look at the cache once the write lock is held
AcquireLock_NoDoubleCheck(c) ==
    /\ cpc[c] = "missed"
    /\ rwWriter = 0
    /\ rwWriter' = c
    /\ cpc' = [cpc EXCEPT ![c] = "exchanging"]
    /\ UNCHANGED <<staticToken, grants, cacheRead, tokens, now, ticks, cop, cuser, ctxOrg, creq, cret,
                   taken, exchLog, nextSerial>>

\* globalTokenCache.Lock(); defer Unlock(); the double check (lines 174-180)
AcquireLock(c) ==
    /\ cpc[c] = "missed"
    /\ rwWriter = 0
    /\ LET key == KeyOf(creq[c]) IN
         IF Live(tokens[key], now)
         THEN /\ cret' = [cret EXCEPT ![c] =
                     [status |-> "ok", how |-> "doublecheck",
                      token |-> tokens[key].token, key |-> key,
                                     expires |-> tokens[key].expires,
                                     fresh |-> now < tokens[key].expires]]
              /\ cpc' = [cpc EXCEPT ![c] = "idle"]
              /\ creq' = [creq EXCEPT ![c] = NoReq]
              /\ UNCHANGED rwWriter
         ELSE /\ rwWriter' = c
              /\ cpc' = [cpc EXCEPT ![c] = "exchanging"]
              /\ UNCHANGED <<cret, creq>>
    /\ cacheRead' = TRUE
    /\ UNCHANGED <<staticToken, grants, tokens, now, ticks, cop, cuser, ctxOrg, taken, exchLog, nextSerial>>

\* mutant: a failed exchange caches the empty token it got
ExchangeReturn_CacheFailure(c) ==
    /\ cpc[c] = "exchanging"
    /\ \E ok \in IF nextSerial <= MaxExchanges THEN BOOLEAN ELSE {FALSE},
          life \in grants :
         LET key == KeyOf(creq[c])
             tok == IF ok THEN [scope |-> ExchangeScope(creq[c].targetType, creq[c].orgName),
                                serial |-> nextSerial, expiresAt |-> now + life]
                          ELSE NoToken
         IN  /\ tokens' = [tokens EXCEPT ![key] = [token |-> tok, expires |-> now + CacheTTL]]
             /\ exchLog' = IF ok THEN exchLog \cup {[key |-> key, req |-> creq[c], token |-> tok, storedAt |-> now]}
                                 ELSE exchLog
             /\ nextSerial' = IF ok THEN nextSerial + 1 ELSE nextSerial
             /\ cret' = [cret EXCEPT ![c] =
                    [status |-> IF ok THEN "ok" ELSE "err", how |-> "exchanged",
                     token |-> tok, key |-> key, expires |-> now + CacheTTL,
                     fresh |-> TRUE]]
    /\ rwWriter' = 0
    /\ cpc' = [cpc EXCEPT ![c] = "idle"]
    /\ creq' = [creq EXCEPT ![c] = NoReq]
    /\ UNCHANGED <<staticToken, grants, cacheRead, now, ticks, cop, cuser, ctxOrg, taken>>

\* the exchange returns (lines 182-218): on success the token is stored for 55 minutes,
\* on failure the error is returned; the deferred Unlock runs in both cases
ExchangeReturn(c) ==
    /\ cpc[c] = "exchanging"
    /\ \E ok \in IF nextSerial <= MaxExchanges THEN BOOLEAN ELSE {FALSE},
          life \in grants :
         LET key == KeyOf(creq[c])
             tok == [scope |-> ExchangeScope(creq[c].targetType, creq[c].orgName),
                     serial |-> nextSerial, expiresAt |-> now + life]
         IN  IF ok
             THEN /\ tokens' = [tokens EXCEPT ![key] =
                                   [token |-> tok, expires |-> now + CacheTTL]]
                  /\ exchLog' = exchLog \cup {[key |-> key, req |-> creq[c], token |-> tok, storedAt |-> now]}
                  /\ nextSerial' = nextSerial + 1
                  /\ cret' = [cret EXCEPT ![c] =
                         [status |-> "ok", how |-> "exchanged", token |-> tok,
                          key |-> key, expires |-> now + CacheTTL, fresh |-> TRUE]]
             ELSE /\ cret' = [cret EXCEPT ![c] =
                         [status |-> "err", how |-> "exchanged",
                          token |-> NoToken, key |-> key,
                          expires |-> 0, fresh |-> FALSE]]
                  /\ UNCHANGED <<tokens, exchLog, nextSerial>>
    /\ rwWriter' = 0
    /\ cpc' = [cpc EXCEPT ![c] = "idle"]
    /\ creq' = [creq EXCEPT ![c] = NoReq]
    /\ UNCHANGED <<staticToken, grants, cacheRead, now, ticks, cop, cuser, ctxOrg, taken>>

\* time passes
Tick ==
    /\ ticks < MaxTicks
    /\ \E d \in TickSteps : now' = now + d
    /\ ticks' = ticks + 1
    /\ UNCHANGED <<staticToken, grants, cacheRead, tokens, rwWriter, cpc, cop, cuser, ctxOrg, creq, cret,
                   taken, exchLog, nextSerial>>

(***************************************************************************)
(* Properties of the token cache                                           *)
(***************************************************************************)
Exchanging == {c \in Callers : cpc[c] = "exchanging"}

\* the calls that returned a token taken from or put into the cache
Served(c) == cpc[c] = "idle" /\ cret[c].status = "ok" /\ cret[c].how # "static"

\* the installation whose token the call is meant to carry: the enterprise installation
\* for CreateOrg / InstallAppOnOrg, the organization of the identity being processed for
\* AddOrgMember / CreateRepoFromTemplate
IntendedScope(op, u) ==
    IF op = "enterprise" THEN <<"first", EnterpriseType>> ELSE <<"org", OrgNameOf(u)>>

\* C3: single flight. At most one exchange is in flight, and only under the write lock;
\* two exchanges that succeeded for one cache key lie at least a validity period apart,
\* so while an entry is live no second exchange is made for its key; every token
\* returned for a key is the one an exchange stored for that key, and calls served from
\* the same entry observe the same token.
C3_SingleFlight ==
    /\ Cardinality(Exchanging) <= 1
    /\ \A c \in Callers : cpc[c] = "exchanging" <=> rwWriter = c
    /\ \A e1, e2 \in exchLog :
         (e1 # e2 /\ e1.key = e2.key) =>
            \/ e2.storedAt >= e1.storedAt + CacheTTL
            \/ e1.storedAt >= e2.storedAt + CacheTTL
    /\ \A c \in Callers : Served(c) =>
         \E e \in exchLog : /\ e.key = cret[c].key
                            /\ e.token = cret[c].token
                            /\ cret[c].expires = e.storedAt + CacheTTL
    /\ \A c1, c2 \in Callers :
         (Served(c1) /\ Served(c2) /\ cret[c1].key = cret[c2].key
            /\ cret[c1].expires = cret[c2].expires) => cret[c1].token = cret[c2].token

\* two workers missed the same key together; one exchanged, the other found the
\* token at its double check, and one exchange was made in all
C3_Witness ==
    \E c1, c2 \in Callers :
        /\ c1 # c2
        /\ Served(c1) /\ cret[c1].how = "exchanged"
        /\ Served(c2) /\ cret[c2].how = "doublecheck"
        /\ cret[c1].key = cret[c2].key
        /\ cret[c1].token = cret[c2].token
        /\ Cardinality(exchLog) = 1

\* C4: no token is returned from the cache at or after its expiry; a call on the
\* exchange path has no live entry for its key; the entry of a key is always the result
\* of the latest exchange for that key, with the expiry that exchange gave it.
C4_NoExpiredToken ==
    /\ \A c \in Callers : Served(c) => cret[c].fresh
    /\ \A c \in Callers : cpc[c] = "exchanging" => ~Live(tokens[KeyOf(creq[c])], now)
    /\ \A k \in CacheKeys : tokens[k] # NoEntry =>
         \E e \in exchLog :
            /\ e.key = k
            /\ e.token = tokens[k].token
            /\ tokens[k].expires = e.storedAt + CacheTTL
            /\ \A f \in exchLog : f.key = k => f.token.serial <= e.token.serial
    /\ \A c \in Callers : (Served(c) /\ cret[c].how = "exchanged") =>
         \A f \in exchLog : (f.key = cret[c].key /\ f.token.serial < cret[c].token.serial)
                               => now >= f.storedAt + CacheTTL

\* a call found the entry of its key expired, exchanged, and its new token replaced it
C4_Witness ==
    \E c \in Callers :
        /\ Served(c) /\ cret[c].how = "exchanged"
        /\ tokens[cret[c].key].token = cret[c].token
        /\ tokens[cret[c].key].expires = now + CacheTTL
        /\ \E f \in exchLog : /\ f.key = cret[c].key
                              /\ f.token.serial < cret[c].token.serial
                              /\ now = f.storedAt + CacheTTL

\* C5: exchanges for different scopes proceed fully in parallel: while one worker's
\* exchange is in flight, a worker that missed on a different cache key, which still
\* has no live entry, can go on to its own exchange.
C5_ParallelExchanges ==
    \A c1, c2 \in Callers :
        (/\ cpc[c1] = "exchanging"
         /\ cpc[c2] = "missed"
         /\ KeyOf(creq[c1]) # KeyOf(creq[c2])
         /\ ~Live(tokens[KeyOf(creq[c2])], now))
            => ENABLED AcquireLock(c2)

\* C6: an exchange that fails leaves the cache as it was, returns the error and releases
\* the lock, and the key still has no live entry, so that the next call for it goes to
\* the exchange again.
C6_FailureLeavesCache ==
    [][\A c \in Callers :
          (cpc[c] = "exchanging" /\ cpc'[c] = "idle" /\ cret'[c].status = "err") =>
             /\ tokens' = tokens
             /\ exchLog' = exchLog
             /\ cret'[c].token.serial = 0
             /\ rwWriter = c /\ rwWriter' = 0
             /\ ~Live(tokens'[cret'[c].key], now')]_cacheVars

\* an exchange failed, nothing was cached, and another call is exchanging for the same key
C6_Witness ==
    \E c, d \in Callers :
        /\ cpc[c] = "idle" /\ cret[c].status = "err"
        /\ tokens[cret[c].key] = NoEntry
        /\ cpc[d] = "exchanging" /\ KeyOf(creq[d]) = cret[c].key
        /\ rwWriter = d

\* C7: a token is cached only under the key of the installation it was issued for,
\* entries of different keys hold different tokens, and every call gets the token of
\* the installation it is meant for: an organization call the token of the organization
\* being processed, never the enterprise token or another organization's.
C7_NoSharedToken ==
    /\ \A k \in CacheKeys : tokens[k] # NoEntry =>
         \E e \in exchLog : /\ e.token = tokens[k].token
                            /\ k = CacheKey(e.req.targetType, e.req.orgName)
                            /\ e.token.scope = ExchangeScope(e.req.targetType, e.req.orgName)
    /\ \A k1, k2 \in CacheKeys :
         (k1 # k2 /\ tokens[k1] # NoEntry /\ tokens[k2] # NoEntry) =>
            /\ tokens[k1].token # tokens[k2].token
            /\ tokens[k1].token.scope # tokens[k2].token.scope
    /\ \A c \in Callers : Served(c) =>
         /\ cret[c].token.scope = IntendedScope(cop[c], cuser[c])
         /\ cop[c] # "enterprise" => cret[c].token.scope # <<"first", EnterpriseType>>

\* a worker on its second identity, its ctx still bound to the organization of the
\* first one whose token is cached, called the enterprise API and got the enterprise token
C7_Witness ==
    \E c \in Callers :
        /\ Served(c) /\ cop[c] = "enterprise"
        /\ ctxOrg[c] # NoOrg /\ ctxOrg[c] # OrgNameOf(cuser[c])
        /\ tokens[CacheKey(OrganizationType, ctxOrg[c])] # NoEntry
        /\ cret[c].token = tokens[CacheKey(EnterpriseType, ctxOrg[c])].token
        /\ cret[c].token # tokens[CacheKey(OrganizationType, ctxOrg[c])].token

\* C30: with a static credential in the context every call of authProv returns that
\* credential: no exchange is performed, no caller reaches the cache's locks, and the
\* token cache is neither read nor modified, for every scope and every caller.
C30_StaticCredential ==
    staticToken =>
        /\ \A c \in Callers :
              /\ cpc[c] = "idle"
              /\ creq[c] = NoReq
              /\ cop[c] # "none" =>
                    /\ cret[c].status = "ok"
                    /\ cret[c].how = "static"
                    /\ cret[c].token.scope = <<"static">>
        /\ exchLog = {}
        /\ nextSerial = 1
        /\ rwWriter = 0
        /\ ~cacheRead
        /\ tokens = [k \in CacheKeys |-> NoEntry]

\* every caller has been authorized with the static credential, for calls of
\* different scopes
C30_Witness ==
    /\ staticToken
    /\ \A c \in Callers : cop[c] # "none" /\ cret[c].how = "static"
    /\ \E c \in Callers, d \in Callers : cop[c] = "enterprise" /\ cop[d] # "enterprise"
    /\ taken = CacheUsers

(***************************************************************************)
(* Repository creation from a template with its retry on the rate limit:   *)
(* createRepoFromTemplateWithRetry (src/internal/github/repos.go 23-112),  *)
(* called once per template by the worker's repository loop                *)
(* (lab_service.go 101-122).                                               *)
(***************************************************************************)
\* number of calls of CreateRepoFromTemplate a worker makes in a row
MaxRepoCalls == 2

\* time.Sleep(60 * time.Second)
RetryDelay == 60
\* context.WithTimeout(ctx, 10*time.Minute), in seconds
RepoTimeout == 600

VARIABLES
    rpc,            \* "enter" (function entry) | "request" | "sleep" | "done" (returned)
    templateOK,     \* templateRepo has the form owner/repo
    retryCount,     \* the retryCount argument
    attempts,       \* history: requests sent by the call
    sleeps,         \* history: delays taken by the call
    elapsed,        \* seconds since the call was made
    lastResp,       \* the response to the last request
    rresult,        \* what the call returned: "none" | "ok" | "err"
    onlyRateLimits, \* history: every request of the call that was answered so far was
                    \* answered with the rate-limit signature
    rcalls          \* history: the calls that returned, in order

retryVars == <<rpc, templateOK, retryCount, attempts, sleeps, elapsed, lastResp, rresult,
               onlyRateLimits, rcalls>>

NoResp == [err |-> FALSE, status |-> 0, json |-> FALSE, phrase |-> FALSE]

\* what client.Do and the reading of the body can give: a transport error (the expiry
\* of ctx included), or a status with a body that parses as JSON or not, whose message
\* holds "Resource not accessible by integration" or not
Responses ==
    {[err |-> TRUE, status |-> 0, json |-> FALSE, phrase |-> FALSE]}
        \cup {[err |-> FALSE, status |-> 201, json |-> j, phrase |-> FALSE] : j \in BOOLEAN}
        \cup {[err |-> FALSE, status |-> st, json |-> TRUE, phrase |-> ph] :
                st \in {422, 403}, ph \in BOOLEAN}
        \cup {[err |-> FALSE, status |-> 422, json |-> FALSE, phrase |-> FALSE]}

\* mutant: the recursive call gets a context without the deadline of the first one
ResponsesAt_NoDeadline(t) == Responses

\* once the deadline of ctx has passed the request fails in the transport: the ctx made
\* by WithTimeout at the first entry is the parent of the one made at every re-entry
ResponsesAt(t) == IF t >= RepoTimeout THEN {r \in Responses : r.err} ELSE Responses

\* mutant: no response is taken for the rate limit
RateLimited_Never(resp) == FALSE

\* mutant: every response other than 201 is taken for the rate limit
RateLimited_AnyFailure(resp) == resp.status # 201

\* resp.StatusCode == 422, the body parses and its message contains the phrase (78-84)
RateLimited(resp) == resp.status = 422 /\ resp.json /\ resp.phrase

RetryIdle ==
    /\ rpc = "done"
    /\ templateOK = TRUE
    /\ retryCount = 0
    /\ attempts = 0
    /\ sleeps = 0
    /\ elapsed = 0
    /\ lastResp = NoResp
    /\ rresult = "none"
    /\ onlyRateLimits = TRUE
    /\ rcalls = <<>>

\* CreateRepoFromTemplate has been called with retryCount 0 (repos.go 17-21)
InitRetry ==
    /\ rpc = "enter"
    /\ templateOK \in BOOLEAN
    /\ retryCount = 0
    /\ attempts = 0
    /\ sleeps = 0
    /\ elapsed = 0
    /\ lastResp = NoResp
    /\ rresult = "none"
    /\ onlyRateLimits = TRUE
    /\ rcalls = <<>>

\* entry of createRepoFromTemplateWithRetry: the format check (lines 27-33)
RetryEnter ==
    /\ rpc = "enter"
    /\ IF templateOK
       THEN rpc' = "request" /\ UNCHANGED rresult
       ELSE rpc' = "done" /\ rresult' = "err"
    /\ UNCHANGED <<templateOK, retryCount, attempts, sleeps, elapsed, lastResp,
                   onlyRateLimits, rcalls>>

\* one request and the handling of its response (lines 54-111)
RetryAttempt ==
    /\ rpc = "request"
    /\ attempts' = attempts + 1
    /\ \E resp \in ResponsesAt(elapsed) :
         /\ lastResp' = resp
         \* a request that fails on the expired ctx gets no answer from the remote side
         /\ onlyRateLimits' = (onlyRateLimits /\ (elapsed >= RepoTimeout
                                    \/ (~resp.err /\ resp.status = 422 /\ resp.phrase)))
         /\ IF resp.err
            THEN rpc' = "done" /\ rresult' = "err" /\ UNCHANGED retryCount
            ELSE IF resp.status # 201
                 THEN IF RateLimited(resp)
                      THEN rpc' = "sleep" /\ retryCount' = retryCount + 1 /\ UNCHANGED rresult
                      ELSE rpc' = "done" /\ rresult' = "err" /\ UNCHANGED retryCount
                 ELSE /\ rpc' = "done"
                      /\ rresult' = IF resp.json THEN "ok" ELSE "err"
                      /\ UNCHANGED retryCount
    /\ UNCHANGED <<templateOK, sleeps, elapsed, rcalls>>

\* time.Sleep(60 * time.Second), then the recursive call (lines 90-91)
RetrySleep ==
    /\ rpc = "sleep"
    /\ elapsed' = elapsed + RetryDelay
    /\ sleeps' = sleeps + 1
    /\ rpc' = "enter"
    /\ UNCHANGED <<templateOK, retryCount, attempts, lastResp, rresult, onlyRateLimits, rcalls>>

\* the worker's loop goes on to its next template (lab_service.go 101-122)
RetryNextCall ==
    /\ rpc = "done"
    /\ rresult # "none"
    /\ Len(rcalls) + 1 < MaxRepoCalls
    /\ rcalls' = Append(rcalls, [result |-> rresult, resp |-> lastResp,
                                 attempts |-> attempts, sleeps |-> sleeps])
    /\ rpc' = "enter"
    /\ templateOK' \in BOOLEAN
    /\ retryCount' = 0
    /\ attempts' = 0
    /\ sleeps' = 0
    /\ elapsed' = 0
    /\ lastResp' = NoResp
    /\ rresult' = "none"
    /\ onlyRateLimits' = TRUE

(***************************************************************************)
(* Properties of the retry                                                 *)
(***************************************************************************)
\* the calls that returned, the current one included
ReturnedCalls ==
    IF rpc = "done" /\ rresult # "none"
    THEN Append(rcalls, [result |-> rresult, resp |-> lastResp,
                         attempts |-> attempts, sleeps |-> sleeps])
    ELSE rcalls

\* the response is the rate limit: status 422 with the phrase in its message
IsRateLimitResponse(resp) == ~resp.err /\ resp.status = 422 /\ resp.phrase

\* C10: terminal states of the retry. A response of success or of a failure other than
\* the rate limit ends the call at once: the call has returned, success with the
\* repository and failure with an error, and no delay or request follows it. A delay
\* is taken only after a rate-limit response, and every request but the first follows
\* such a delay.
C10_RetryTerminalStates ==
    /\ (attempts > 0 /\ ~IsRateLimitResponse(lastResp)) =>
          /\ rpc = "done"
          /\ attempts = sleeps + 1
          /\ rresult = IF ~lastResp.err /\ lastResp.status = 201 /\ lastResp.json
                       THEN "ok" ELSE "err"
    /\ rpc = "sleep" => IsRateLimitResponse(lastResp)
    /\ sleeps <= attempts /\ attempts <= sleeps + 1
    /\ retryCount = sleeps + (IF rpc = "sleep" THEN 1 ELSE 0)
    /\ \A i \in 1..Len(ReturnedCalls) :
          LET r == ReturnedCalls[i] IN
              /\ r.attempts = 0 => r.result = "err" /\ r.sleeps = 0
              /\ r.attempts > 0 => /\ r.attempts = r.sleeps + 1
                                   /\ ~IsRateLimitResponse(r.resp)
              /\ r.result = "ok" => ~r.resp.err /\ r.resp.status = 201

\* one call succeeded after a rate-limit delay and the next one failed, after a
\* rate-limit delay too, on a response that is not the rate limit
C10_Witness ==
    /\ Len(ReturnedCalls) = 2
    /\ ReturnedCalls[1].result = "ok" /\ ReturnedCalls[1].sleeps >= 1
    /\ ReturnedCalls[2].result = "err" /\ ReturnedCalls[2].sleeps >= 1
    /\ ReturnedCalls[2].resp.status = 422 /\ ~ReturnedCalls[2].resp.phrase

\* the number of delays that fit into the deadline of the call
MaxDelays == RepoTimeout \div RetryDelay

\* C11 as stated: a call whose every answer from the remote side is the rate-limit
\* signature never returns.
C11_RetriesForever == (onlyRateLimits /\ attempts > 0) => rpc # "done"

\* C11: after a rate-limit response the call never returns at once: it takes the
\* 60-second delay and re-attempts with the counter one higher, and no count of
\* attempts ends it. What ends it is the 10-minute deadline of its context: no delay
\* begins after the deadline, and a call that got nothing but rate-limit responses
\* returns an error from the request it sends when the deadline has passed.
C11_RetryUntilDeadline ==
    /\ IsRateLimitResponse(lastResp) => rpc \in {"sleep", "enter", "request"}
    /\ rpc = "sleep" => retryCount = attempts /\ sleeps = attempts - 1
    /\ rpc \in {"enter", "request"} => retryCount = attempts /\ sleeps = attempts
    /\ elapsed = sleeps * RetryDelay
    /\ sleeps <= MaxDelays
    /\ rpc = "sleep" => elapsed < RepoTimeout
    /\ (rpc = "done" /\ onlyRateLimits /\ attempts > 0) =>
          /\ rresult = "err"
          /\ lastResp.err
          /\ elapsed >= RepoTimeout
          /\ sleeps = MaxDelays
          /\ attempts = MaxDelays + 1

\* every request was answered with the rate limit, ten delays were taken, and the
\* eleventh request failed on the expired context: the call has returned an error
C11_Witness ==
    /\ rpc = "done"
    /\ onlyRateLimits
    /\ rresult = "err"
    /\ sleeps = MaxDelays
    /\ retryCount = MaxDelays
    /\ lastResp.err

(***************************************************************************)
(* The start of a run: the number of workers and the dispatch              *)
(* (CreateLabEnvironment 226-259, DestroyLabEnvironment 473-505), for      *)
(* numbers of identities beyond the number of workers. The units and the   *)
(* workers are counted, not told apart: a worker is idle (blocked in its   *)
(* range loop), busy with one unit, or gone.                               *)
(***************************************************************************)

\* the largest number of identities of a run in this part
MaxIdentities == 11

VARIABLES
    stUsers,         \* len(allUsersToProvision) / len(allUsersToDelete)
    stNumWorkers,    \* numWorkers
    stPc,            \* main goroutine: "spawn" | "send" | "collect" | "done"
    stQueue,         \* number of units in orgChan / userChan
    stSent,          \* number of units the dispatch loop has sent
    stQueueClosed,   \* close(orgChan) has run
    stIdle,          \* workers blocked in the range loop
    stBusy,          \* workers processing a unit
    stExited,        \* workers that returned (wg.Done() has run)
    stResults,       \* number of records in resultsChan
    stResultsClosed, \* close(resultsChan) has run
    stReceived       \* resultCount

startVars == <<stUsers, stNumWorkers, stPc, stQueue, stSent, stQueueClosed,
               stIdle, stBusy, stExited, stResults, stResultsClosed, stReceived>>

\* numWorkers := 9; if len(all) < numWorkers { numWorkers = len(all) }, then the
\* channels are made and the spawn loop begins
InitStartFor(sizes) ==
    /\ stUsers \in sizes
    /\ stNumWorkers = NumWorkersFor(stUsers)
    /\ stPc = "spawn"
    /\ stQueue = 0
    /\ stSent = 0
    /\ stQueueClosed = FALSE
    /\ stIdle = 0
    /\ stBusy = 0
    /\ stExited = 0
    /\ stResults = 0
    /\ stResultsClosed = FALSE
    /\ stReceived = 0

InitStart == InitStartFor(0..MaxIdentities)

\* no run under way
StartIdle == InitStartFor({0})

\* the workers started so far (the loop variable i)
Spawned == stIdle + stBusy + stExited

\* for i := 0; i < numWorkers; i++ { wg.Add(1); go func(workerId int) {...}(i) }
StartWorker ==
    /\ stPc = "spawn"
    /\ Spawned < stNumWorkers
    /\ stIdle' = stIdle + 1
    /\ UNCHANGED <<stUsers, stNumWorkers, stPc, stQueue, stSent, stQueueClosed,
                   stBusy, stExited, stResults, stResultsClosed, stReceived>>

\* the spawn loop ends
SpawnDone ==
    /\ stPc = "spawn"
    /\ Spawned = stNumWorkers
    /\ stPc' = "send"
    /\ UNCHANGED <<stUsers, stNumWorkers, stQueue, stSent, stQueueClosed,
                   stIdle, stBusy, stExited, stResults, stResultsClosed, stReceived>>

\* for _, user := range all { orgChan <- user }  (the channel has room for all)
SendUnit ==
    /\ stPc = "send"
    /\ stSent < stUsers
    /\ stQueue < stUsers
    /\ stSent' = stSent + 1
    /\ stQueue' = stQueue + 1
    /\ UNCHANGED <<stUsers, stNumWorkers, stPc, stQueueClosed,
                   stIdle, stBusy, stExited, stResults, stResultsClosed, stReceived>>

\* close(orgChan); go func() { wg.Wait(); close(resultsChan) }(); the loop begins
CloseQueue ==
    /\ stPc = "send"
    /\ stSent = stUsers
    /\ stQueueClosed' = TRUE
    /\ stPc' = "collect"
    /\ UNCHANGED <<stUsers, stNumWorkers, stQueue, stSent,
                   stIdle, stBusy, stExited, stResults, stResultsClosed, stReceived>>

\* a worker receives a unit from the queue (for user := range orgChan)
WorkerTake ==
    /\ stIdle > 0
    /\ stQueue > 0
    /\ stQueue' = stQueue - 1
    /\ stIdle' = stIdle - 1
    /\ stBusy' = stBusy + 1
    /\ UNCHANGED <<stUsers, stNumWorkers, stPc, stSent, stQueueClosed,
                   stExited, stResults, stResultsClosed, stReceived>>

\* a worker ends a unit: resultsChan <- result, back to the range loop
WorkerDone ==
    /\ stBusy > 0
    /\ stResults < stUsers
    /\ stBusy' = stBusy - 1
    /\ stIdle' = stIdle + 1
    /\ stResults' = stResults + 1
    /\ UNCHANGED <<stUsers, stNumWorkers, stPc, stQueue, stSent, stQueueClosed,
                   stExited, stResultsClosed, stReceived>>

\* the range loop of a worker ends: the queue is closed and empty
WorkerLeave ==
    /\ stIdle > 0
    /\ stQueue = 0
    /\ stQueueClosed
    /\ stIdle' = stIdle - 1
    /\ stExited' = stExited + 1
    /\ UNCHANGED <<stUsers, stNumWorkers, stPc, stQueue, stSent, stQueueClosed,
                   stBusy, stResults, stResultsClosed, stReceived>>

\* wg.Wait() returns (every worker started has returned); close(resultsChan)
CloseResultsChan ==
    /\ stPc = "collect"
    /\ ~stResultsClosed
    /\ stExited = stNumWorkers
    /\ stResultsClosed' = TRUE
    /\ UNCHANGED <<stUsers, stNumWorkers, stPc, stQueue, stSent, stQueueClosed,
                   stIdle, stBusy, stExited, stResults, stReceived>>

\* case res, ok := <-resultsChan with ok = true
ReceiveResult ==
    /\ stPc = "collect"
    /\ stResults > 0
    /\ stResults' = stResults - 1
    /\ stReceived' = stReceived + 1
    /\ UNCHANGED <<stUsers, stNumWorkers, stPc, stQueue, stSent, stQueueClosed,
                   stIdle, stBusy, stExited, stResultsClosed>>

\* case res, ok := <-resultsChan with ok = false: the run returns
RunReturns ==
    /\ stPc = "collect"
    /\ stResults = 0
    /\ stResultsClosed
    /\ stPc' = "done"
    /\ UNCHANGED <<stUsers, stNumWorkers, stQueue, stSent, stQueueClosed,
                   stIdle, stBusy, stExited, stResults, stResultsClosed, stReceived>>

\* C25: on a successful exchange the expiry of the cache entry is set strictly
\* before the expiry the exchange reports for the credential, so that a token the
\* cache would serve has never expired at the remote API.
C25_ExpiryBeforeTrueExpiry ==
    \A k \in CacheKeys :
        /\ tokens[k] # NoEntry => tokens[k].expires < tokens[k].token.expiresAt
        /\ Live(tokens[k], now) => now < tokens[k].token.expiresAt

(***************************************************************************)
(* One worker and its remote calls, each in two steps: the request is sent  *)
(* (http.NewRequestWithContext(ctx, ...), client.Do) and the call returns.  *)
(* Every call derives its context from the context of the run              *)
(* (context.WithTimeout(ctx, ...), orgs.go 20, 212, 335, 560; repos.go 27), *)
(* so the cancellation of the run reaches the request in flight: client.Do  *)
(* returns the context's error unless the response was already in.          *)
(***************************************************************************)

\* the largest number of units the worker is given in this part
MaxFlightUnits == 2

VARIABLES
    flMode,          \* "create" | "destroy"
    flUsePAT,        \* the run has a static credential (no installation)
    flGrant,         \* the admin grant is due for the units of this run
    flQueue,         \* number of units still in the queue
    flCancelled,     \* ctx.Done() of the run is closed
    flPc,            \* "loop" | "createOrg" | "installApp" | "addMember" | "createRepo" |
                     \* "deleteOrg" | "exited"
    flInFlight,      \* the request of the call at flPc has been sent
    flWould,         \* the outcome of the call in flight if nothing cancels it (its own
                     \* success or its own error, its own timeout included)
    flStartedBefore, \* the call in flight was started before the cancellation
    flLast           \* the last call that returned, with its outcome

flightVars == <<flMode, flUsePAT, flGrant, flQueue, flCancelled, flPc, flInFlight, flWould,
                flStartedBefore, flLast>>

NoCall == [op |-> "none", would |-> FALSE, ok |-> FALSE, startedBefore |-> FALSE,
           cancelledAtReturn |-> FALSE]

InitFlightFor(sizes) ==
    /\ flMode \in {"create", "destroy"}
    /\ IF flMode = "create" THEN flUsePAT \in BOOLEAN ELSE flUsePAT = FALSE
    /\ IF flMode = "create" THEN flGrant \in BOOLEAN ELSE flGrant = FALSE
    /\ flQueue \in sizes
    /\ flCancelled = FALSE
    /\ flPc = "loop"
    /\ flInFlight = FALSE
    /\ flWould = FALSE
    /\ flStartedBefore = FALSE
    /\ flLast = NoCall

InitFlight == InitFlightFor(1..MaxFlightUnits)

\* no worker under way
FlightIdle ==
    /\ flMode = "destroy"
    /\ flUsePAT = FALSE
    /\ flGrant = FALSE
    /\ flQueue = 0
    /\ flCancelled = FALSE
    /\ flPc = "exited"
    /\ flInFlight = FALSE
    /\ flWould = FALSE
    /\ flStartedBefore = FALSE
    /\ flLast = NoCall

\* the context of the run is cancelled (deadline or caller)
FlightCancel ==
    /\ ~flCancelled
    /\ flPc # "exited"
    /\ flCancelled' = TRUE
    /\ UNCHANGED <<flMode, flUsePAT, flGrant, flQueue, flPc, flInFlight, flWould,
                   flStartedBefore, flLast>>

\* for user := range orgChan { select { case <-ctx.Done(): return; default: } ...
FlightDequeue ==
    /\ flPc = "loop"
    /\ flQueue > 0
    /\ flQueue' = flQueue - 1
    /\ flPc' = IF flCancelled THEN "exited"
               ELSE IF flMode = "create" THEN "createOrg" ELSE "deleteOrg"
    /\ UNCHANGED <<flMode, flUsePAT, flGrant, flCancelled, flInFlight, flWould,
                   flStartedBefore, flLast>>

\* the range loop ends
FlightExit ==
    /\ flPc = "loop"
    /\ flQueue = 0
    /\ flPc' = "exited"
    /\ UNCHANGED <<flMode, flUsePAT, flGrant, flQueue, flCancelled, flInFlight, flWould,
                   flStartedBefore, flLast>>

FlightOps == {"createOrg", "installApp", "addMember", "createRepo", "deleteOrg"}

\* req, err := http.NewRequestWithContext(ctx, ...); client.Do(req) is entered
CallStart ==
    /\ flPc \in FlightOps
    /\ ~flInFlight
    /\ flInFlight' = TRUE
    /\ flWould' \in BOOLEAN
    /\ flStartedBefore' = ~flCancelled
    /\ UNCHANGED <<flMode, flUsePAT, flGrant, flQueue, flCancelled, flPc, flLast>>

\* what client.Do and the reading of the body return: the remote outcome while the
\* context is live; the context's error for a request entered with a dead context;
\* either of the two when the context died while the request was in flight
CallOutcomes ==
    IF ~flCancelled THEN {flWould}
    ELSE IF flStartedBefore THEN {flWould, FALSE}
    ELSE {FALSE}

\* the step of the worker that follows the call at pc with outcome ok
\* (ProvisionOrgResources 48-126 with one template, DestroyOrgResourcesWithReport 580-594)
FlightAfter(pc, ok) ==
    CASE pc = "createOrg" ->
            IF ~ok THEN "loop"
            ELSE IF ~flUsePAT THEN "installApp"
            ELSE IF flGrant THEN "addMember" ELSE "createRepo"
      [] pc = "installApp" ->
            IF ~ok THEN "loop" ELSE IF flGrant THEN "addMember" ELSE "createRepo"
      [] pc = "addMember" -> "createRepo"
      [] pc = "createRepo" -> "loop"
      [] pc = "deleteOrg" -> "loop"

\* resp, err := client.Do(req) returns and the worker goes on
CallReturn ==
    /\ flInFlight
    /\ \E ok \in CallOutcomes :
         /\ flLast' = [op |-> flPc, would |-> flWould, ok |-> ok,
                       startedBefore |-> flStartedBefore,
                       cancelledAtReturn |-> flCancelled]
         /\ flPc' = FlightAfter(flPc, ok)
    /\ flInFlight' = FALSE
    /\ flWould' = FALSE
    /\ flStartedBefore' = FALSE
    /\ UNCHANGED <<flMode, flUsePAT, flGrant, flQueue, flCancelled>>

\* C24: the cancellation does not interrupt a remote call in progress: a call that
\* was started before the cancellation returns the outcome it would have had
\* without it.
C24_NoInterruption ==
    (flLast.op # "none" /\ flLast.startedBefore) => flLast.ok = flLast.would

(***************************************************************************)
(* The names of the organizations: the create path builds the login it      *)
(* requests in Enterprise.CreateOrg (orgs.go 18), the delete path builds    *)
(* the login it deletes in DestroyOrgResourcesWithReport (lab_service.go    *)
(* 567). Strings are sequences of characters.                               *)
(***************************************************************************)

\* the longest lab date and the longest username of this part
MaxNameLen == 2

\* the characters of lab dates and usernames: a letter and the separator itself
NameChars == {"a", "-"}

\* the non-empty strings of at most n characters
NameStrings(n) == UNION {[1..k -> NameChars] : k \in 1..n}

VARIABLES
    nmLabDate,      \* the --lab-date of the two runs (config.LabDateKey, labDate)
    nmUsers,        \* the identities of the two runs
    nmCreated,      \* per identity, the logins the create run requested
    nmDeleted       \* per identity, the logins the delete run deleted

nameVars == <<nmLabDate, nmUsers, nmCreated, nmDeleted>>

InitNamesFor(dates, users) ==
    /\ nmLabDate \in dates
    /\ nmUsers \in {us \in SUBSET users : Cardinality(us) <= 2}
    /\ nmCreated = [u \in nmUsers |-> {}]
    /\ nmDeleted = [u \in nmUsers |-> {}]

InitNames == InitNamesFor(NameStrings(MaxNameLen), NameStrings(MaxNameLen))

\* no run under way
NamesIdle == InitNamesFor({<<>>}, {})

GhasLabs == <<"g", "h", "a", "s", "-", "l", "a", "b", "s", "-">>

\* mutant: the delete path leaves the separator out
DeleteOrgName_NoSeparator(labDate, user) == GhasLabs \o labDate \o user

\* orgName := "ghas-labs-" + ctx.Value(config.LabDateKey).(string) + "-" + user
CreateOrgName(labDate, user) == GhasLabs \o labDate \o <<"-">> \o user

\* orgName := "ghas-labs-" + labDate + "-" + user
DeleteOrgName(labDate, user) == GhasLabs \o labDate \o <<"-">> \o user

\* the create run requests the organization of identity u
NameCreate(u) ==
    /\ nmCreated' = [nmCreated EXCEPT ![u] = @ \cup {CreateOrgName(nmLabDate, u)}]
    /\ UNCHANGED <<nmLabDate, nmUsers, nmDeleted>>

\* the delete run deletes the organization of identity u
NameDelete(u) ==
    /\ nmDeleted' = [nmDeleted EXCEPT ![u] = @ \cup {DeleteOrgName(nmLabDate, u)}]
    /\ UNCHANGED <<nmLabDate, nmUsers, nmCreated>>

\* the logins a run has named so far
Named(byUser) == UNION {byUser[u] : u \in nmUsers}

\* C27: the naming is deterministic and the same on both paths: for lab identifier D
\* and identity U both the login requested and the login deleted are "ghas-labs-D-U";
\* with D fixed, distinct identities have distinct logins, so a delete run over the
\* identities of a create run deletes exactly the organizations that run requested.
C27_NamingDeterministic ==
    /\ \A u \in nmUsers :
          /\ nmCreated[u] \subseteq
                {<<"g", "h", "a", "s", "-", "l", "a", "b", "s", "-">> \o nmLabDate \o <<"-">> \o u}
          /\ nmDeleted[u] \subseteq
                {<<"g", "h", "a", "s", "-", "l", "a", "b", "s", "-">> \o nmLabDate \o <<"-">> \o u}
          /\ (nmCreated[u] # {} /\ nmDeleted[u] # {}) => nmCreated[u] = nmDeleted[u]
    /\ \A u \in nmUsers, v \in nmUsers :
          u # v => (nmCreated[u] \cup nmDeleted[u]) \cap (nmCreated[v] \cup nmDeleted[v]) = {}
    /\ ((\A u \in nmUsers : nmCreated[u] # {} /\ nmDeleted[u] # {})
           => Named(nmDeleted) = Named(nmCreated))

\* two identities that differ by the separator only, both created and deleted
C27_Witness ==
    /\ nmLabDate = <<"a", "-">>
    /\ nmUsers = {<<"a">>, <<"-", "a">>}
    /\ \A u \in nmUsers : nmCreated[u] # {} /\ nmDeleted[u] # {}
    /\ Cardinality(Named(nmDeleted)) = 2

(***************************************************************************)
(* The preparation of a run: CreateLabEnvironment validates the users and   *)
(* the facilitators, combines the valid names and dispatches them           *)
(* (lab_service.go 133-253); DestroyLabEnvironment has the same statements  *)
(* (lab_service.go 400-499).                                                *)
(***************************************************************************)

\* the longest user list and the longest facilitator list of this part
MaxListLen == 2

\* the usernames of this part
Usernames == {"alice", "bob"}

\* the lists of at most n usernames, repeated names included
NameLists(n) == UNION {[1..k -> Usernames] : k \in 0..n}

\* the orders in which n results can arrive on resultChan
Arrivals(n) == {f \in [1..n -> 1..n] : \A i \in 1..n, j \in 1..n : i # j => f[i] # f[j]}

\* the names of a list
Names(list) == {list[i] : i \in 1..Len(list)}

VARIABLES
    ppUsers,                \* the users file as loaded
    ppFacilitators,         \* the facilitators of the context
    ppPc,                   \* the position of the run
    ppUserOk,               \* per user request, whether the answer was 200
    ppFacOk,                \* per facilitator request, whether the answer was 200
    ppValidUsers,           \* users after filtering
    ppInvalidUsers,         \* invalidUsers
    ppValidFacilitators,    \* facilitators after filtering
    ppInvalidFacilitators,  \* invalidFacilitators
    ppAll,                  \* allUsersToProvision
    ppSent,                 \* what has been sent on orgChan
    ppMode,                 \* "create" | "destroy": which of the two runs this is
    ppReceived,             \* resultCount
    ppSuccessCount,         \* SuccessCount of the report
    ppFailureCount          \* FailureCount of the report

prepVars == <<ppUsers, ppFacilitators, ppPc, ppUserOk, ppFacOk, ppValidUsers, ppInvalidUsers,
              ppValidFacilitators, ppInvalidFacilitators, ppAll, ppSent,
              ppMode, ppReceived, ppSuccessCount, ppFailureCount>>

InitPrepFor(modes, lists) ==
    /\ ppMode \in modes
    /\ ppReceived = 0
    /\ ppSuccessCount = 0
    /\ ppFailureCount = 0
    /\ ppUsers \in lists
    /\ ppFacilitators \in lists
    /\ ppPc = "users"
    /\ ppUserOk = <<>>
    /\ ppFacOk = <<>>
    /\ ppValidUsers = <<>>
    /\ ppInvalidUsers = <<>>
    /\ ppValidFacilitators = <<>>
    /\ ppInvalidFacilitators = <<>>
    /\ ppAll = <<>>
    /\ ppSent = <<>>

InitPrep == InitPrepFor({"create", "destroy"}, NameLists(MaxListLen))

\* no preparation under way
PrepIdle == InitPrepFor({"create"}, {<<>>})

\* ValidateAndFilterUsers: ok[i] is whether request i was answered 200, arrival the
\* order of the results on resultChan. Invalid names are collected in arrival order,
\* valid names are the entries of usernames found in validationMap.
ValidateAndFilterUsers(usernames, ok, arrival) ==
    LET n == Len(usernames)
        validationMap == {usernames[i] : i \in {j \in 1..n : ok[j]}}
        failed == SelectSeq([k \in 1..n |-> arrival[k]], LAMBDA i : ~ok[i])
        invalidUsers == [k \in 1..Len(failed) |-> usernames[failed[k]]]
        validUsers == SelectSeq(usernames, LAMBDA u : u \in validationMap)
    IN  IF n = 0
        THEN [err |-> FALSE, ValidUsers |-> <<>>, InvalidUsers |-> <<>>]
        ELSE IF Len(validUsers) = 0
        THEN [err |-> TRUE, ValidUsers |-> <<>>, InvalidUsers |-> <<>>]
        ELSE [err |-> FALSE, ValidUsers |-> validUsers, InvalidUsers |-> invalidUsers]

\* userValidation, err := api.ValidateAndFilterUsers(ctx, logger, users)
PrepValidateUsers ==
    /\ ppPc = "users"
    /\ \E ok \in [1..Len(ppUsers) -> BOOLEAN], arrival \in Arrivals(Len(ppUsers)) :
          LET r == ValidateAndFilterUsers(ppUsers, ok, arrival)
          IN  /\ ppUserOk' = ok
              /\ IF r.err
                 THEN /\ ppPc' = "aborted"
                      /\ UNCHANGED <<ppValidUsers, ppInvalidUsers>>
                 ELSE /\ ppPc' = "facilitators"
                      /\ ppValidUsers' = r.ValidUsers
                      /\ ppInvalidUsers' = r.InvalidUsers
    /\ UNCHANGED <<ppMode, ppReceived, ppSuccessCount, ppFailureCount, ppUsers, ppFacilitators, ppFacOk, ppValidFacilitators,
                   ppInvalidFacilitators, ppAll, ppSent>>

\* if len(facilitators) > 0 { facilitatorValidation, err := ... }
PrepValidateFacilitators ==
    /\ ppPc = "facilitators"
    /\ IF Len(ppFacilitators) > 0
       THEN \E ok \in [1..Len(ppFacilitators) -> BOOLEAN],
               arrival \in Arrivals(Len(ppFacilitators)) :
               LET r == ValidateAndFilterUsers(ppFacilitators, ok, arrival)
               IN  /\ ppFacOk' = ok
                   /\ IF r.err
                      THEN /\ ppPc' = "aborted"
                           /\ UNCHANGED <<ppValidFacilitators, ppInvalidFacilitators>>
                      ELSE /\ ppPc' = "combine"
                           /\ ppValidFacilitators' = r.ValidUsers
                           /\ ppInvalidFacilitators' = r.InvalidUsers
       ELSE /\ ppPc' = "combine"
            /\ UNCHANGED <<ppFacOk, ppValidFacilitators, ppInvalidFacilitators>>
    /\ UNCHANGED <<ppMode, ppReceived, ppSuccessCount, ppFailureCount, ppUsers, ppFacilitators, ppUserOk, ppValidUsers, ppInvalidUsers,
                   ppAll, ppSent>>

\* mutant: the two lists are appended without the map
PrepCombine_Concat ==
    /\ ppPc = "combine"
    /\ ppAll' = ppValidUsers \o ppValidFacilitators
    /\ ppPc' = "dispatch"
    /\ UNCHANGED <<ppMode, ppReceived, ppSuccessCount, ppFailureCount, ppUsers, ppFacilitators, ppUserOk, ppFacOk, ppValidUsers, ppInvalidUsers,
                   ppValidFacilitators, ppInvalidFacilitators, ppSent>>

\* userSet receives the users and the facilitators; the slice is filled by ranging
\* over the map, in an order the runtime chooses
PrepCombine ==
    /\ ppPc = "combine"
    /\ LET userSet == Names(ppValidUsers) \cup Names(ppValidFacilitators)
       IN  \E all \in [1..Cardinality(userSet) -> userSet] :
              /\ Names(all) = userSet
              /\ ppAll' = all
    /\ ppPc' = "dispatch"
    /\ UNCHANGED <<ppMode, ppReceived, ppSuccessCount, ppFailureCount, ppUsers, ppFacilitators, ppUserOk, ppFacOk, ppValidUsers, ppInvalidUsers,
                   ppValidFacilitators, ppInvalidFacilitators, ppSent>>

\* for _, user := range allUsersToProvision { orgChan <- user }; close(orgChan)
PrepDispatch ==
    /\ ppPc = "dispatch"
    /\ IF Len(ppSent) < Len(ppAll)
       THEN /\ ppSent' = Append(ppSent, ppAll[Len(ppSent) + 1])
            /\ UNCHANGED ppPc
       ELSE /\ ppPc' = "dispatched"
            /\ UNCHANGED ppSent
    /\ UNCHANGED <<ppMode, ppReceived, ppSuccessCount, ppFailureCount, ppUsers, ppFacilitators, ppUserOk, ppFacOk, ppValidUsers, ppInvalidUsers,
                   ppValidFacilitators, ppInvalidFacilitators, ppAll>>

\* TotalUsers of the report: len(allUsersToProvision) in CreateLabEnvironment (line
\* 287), len(users) in DestroyLabEnvironment (line 462), users being the valid users
TotalUsers == IF ppMode = "create" THEN Len(ppAll) ELSE Len(ppValidUsers)

\* the aggregator receives the record of the next unit, successful or failed, and counts it
PrepReceive ==
    /\ ppPc = "dispatched"
    /\ ppReceived < Len(ppSent)
    /\ ppReceived' = ppReceived + 1
    /\ \E status \in {"success", "failed"} :
          IF status = "success"
          THEN ppSuccessCount' = ppSuccessCount + 1 /\ UNCHANGED ppFailureCount
          ELSE ppFailureCount' = ppFailureCount + 1 /\ UNCHANGED ppSuccessCount
    /\ UNCHANGED <<ppMode, ppUsers, ppFacilitators, ppPc, ppUserOk, ppFacOk, ppValidUsers,
                   ppInvalidUsers, ppValidFacilitators, ppInvalidFacilitators, ppAll, ppSent>>

\* C36: in the deletion report SuccessCount + FailureCount never exceeds TotalUsers,
\* and equals TotalUsers when the records of all dispatched units have been counted.
C36_CountsWithinTotal ==
    ppMode = "destroy" =>
        /\ ppSuccessCount + ppFailureCount <= TotalUsers
        /\ (ppPc = "dispatched" /\ ppReceived = Len(ppSent)) =>
              ppSuccessCount + ppFailureCount = TotalUsers

\* the names of a list whose request was answered 200
ValidNames(list, ok) == {list[i] : i \in {j \in 1..Len(ok) : ok[j]}}

\* C28: invalid usernames do not stop the run: whenever some name of the user list or
\* of the facilitator list has been validated, the run is not aborted at validation.
C28_InvalidDoNotStop ==
    ppPc = "aborted" => ValidNames(ppUsers, ppUserOk) \cup ValidNames(ppFacilitators, ppFacOk) = {}

\* C29: the identities dispatched contain no duplicates, and once the dispatch is over
\* the set enqueued is the union of the valid users and the valid facilitators.
C29_NoDuplicates ==
    /\ \A i \in 1..Len(ppSent), j \in 1..Len(ppSent) : i # j => ppSent[i] # ppSent[j]
    /\ Names(ppSent) \subseteq
          ValidNames(ppUsers, ppUserOk) \cup ValidNames(ppFacilitators, ppFacOk)
    /\ ppPc = "dispatched" =>
          Names(ppSent) = ValidNames(ppUsers, ppUserOk) \cup ValidNames(ppFacilitators, ppFacOk)

\* a repeated user, a facilitator that is also a user, each name enqueued once
C29_Witness ==
    /\ ppPc = "dispatched"
    /\ ppUsers = <<"alice", "alice">>
    /\ ppFacilitators = <<"bob", "alice">>
    /\ ppUserOk = <<TRUE, TRUE>>
    /\ ppFacOk = <<TRUE, TRUE>>
    /\ ppSent = <<"bob", "alice">>

(***************************************************************************)
(* The time stamp of a record: a worker stamps CompletedAt (create,         *)
(* lab_service.go 39-45) or DeletedAt (destroy, lab_service.go 570-575)     *)
(* when it builds the record, makes the remote calls and sends the record.  *)
(***************************************************************************)

\* the number of times the clock advances in this part
MaxStampTicks == 2

\* the numbers of units a worker of this part is given
StampUnits == {1, 2}

VARIABLES
    tsMode,         \* "create" | "destroy"
    tsNow,          \* time.Now()
    tsLeft,         \* units still in the worker's queue
    tsPc,           \* "idle" | "built" (between calls) | "inCall"
    tsOp,           \* index of the next remote call of the unit
    tsResult,       \* result / orgReport, the record under construction
    tsLastReturn,   \* history: the time the unit's last remote call returned (-1: none)
    tsPublished     \* the records sent on resultsChan, each with the history of its unit

stampVars == <<tsMode, tsNow, tsLeft, tsPc, tsOp, tsResult, tsLastReturn, tsPublished>>

NoStamp == [Status |-> "", CompletedAt |-> 0]

InitStampFor(modes, units) ==
    /\ tsMode \in modes
    /\ tsNow = 0
    /\ tsLeft \in units
    /\ tsPc = "idle"
    /\ tsOp = 0
    /\ tsResult = NoStamp
    /\ tsLastReturn = -1
    /\ tsPublished = <<>>

InitStamp == InitStampFor({"create", "destroy"}, StampUnits)

\* no worker of this part
StampIdle == InitStampFor({"destroy"}, {0})

\* the remote calls of one unit, in the order of the worker's code
StampOps ==
    IF tsMode = "create"
    THEN <<"CreateOrg", "InstallAppOnOrg", "AddOrgMember", "CreateRepoFromTemplate">>
    ELSE <<"DeleteOrg">>

\* the calls whose failure ends the unit with a failed record
StampFatal == {"CreateOrg", "InstallAppOnOrg", "DeleteOrg"}

\* result := ProvisionResult{..., Status: "failed", CompletedAt: time.Now()}
\* orgReport := DeleteOrgReport{..., DeletedAt: deleteTime}
StampBuild ==
    /\ tsPc = "idle"
    /\ tsLeft > 0
    /\ tsLeft' = tsLeft - 1
    /\ tsResult' = [Status |-> "failed", CompletedAt |-> tsNow]
    /\ tsOp' = 1
    /\ tsLastReturn' = -1
    /\ tsPc' = "built"
    /\ UNCHANGED <<tsMode, tsNow, tsPublished>>

\* the worker makes the next remote call of the unit
StampCall ==
    /\ tsPc = "built"
    /\ tsOp <= Len(StampOps)
    /\ tsPc' = "inCall"
    /\ UNCHANGED <<tsMode, tsNow, tsLeft, tsOp, tsResult, tsLastReturn, tsPublished>>

\* the call returns: a failed fatal call leads to the send of the failed record;
\* past the last call the status becomes "success"
StampReturn ==
    /\ tsPc = "inCall"
    /\ \E ok \in BOOLEAN :
          IF ~ok /\ StampOps[tsOp] \in StampFatal
          THEN /\ tsOp' = Len(StampOps) + 1
               /\ UNCHANGED tsResult
          ELSE /\ tsOp' = tsOp + 1
               /\ tsResult' = IF tsOp = Len(StampOps)
                              THEN [tsResult EXCEPT !.Status = "success"]
                              ELSE tsResult
    /\ tsLastReturn' = tsNow
    /\ tsPc' = "built"
    /\ UNCHANGED <<tsMode, tsNow, tsLeft, tsPublished>>

\* resultsChan <- result: the channel receives a copy of the record
StampSend ==
    /\ tsPc = "built"
    /\ tsOp > Len(StampOps)
    /\ tsPublished' = Append(tsPublished, [record |-> tsResult, lastReturn |-> tsLastReturn])
    /\ tsPc' = "idle"
    /\ UNCHANGED <<tsMode, tsNow, tsLeft, tsOp, tsResult, tsLastReturn>>

\* time passes
StampTick ==
    /\ tsNow < MaxStampTicks
    /\ tsNow' = tsNow + 1
    /\ UNCHANGED <<tsMode, tsLeft, tsPc, tsOp, tsResult, tsLastReturn, tsPublished>>

\* C31: the completedAt of a published record is not earlier than the moment the last
\* remote operation performed for its identity returned.
C31_CompletedAtAfterLastCall ==
    \A i \in 1..Len(tsPublished) :
        tsPublished[i].record.CompletedAt >= tsPublished[i].lastReturn

(***************************************************************************)
(* CustomRoundTripper.RoundTrip (src/unnamed/part_000 91-141): the request  *)
(* is cloned, the static headers and the Authorization header are set on    *)
(* the clone, and the clone is handed to the base transport. A header is a  *)
(* map from canonical keys to lists of values; requests refer to their      *)
(* header by reference.                                                     *)
(***************************************************************************)

\* the largest number of values the caller's Accept header carries
MaxHeaderValues == 2

\* the canonical header keys of this part
HeaderKeys == {"Authorization", "Accept", "X-Github-Api-Version"}

\* textproto.CanonicalMIMEHeaderKey on the keys used here
CanonicalKey(k) == IF k = "X-GitHub-Api-Version" THEN "X-Github-Api-Version" ELSE k

\* the static map of NewGithubStyleTransport, as pairs of key and value
GithubStatic == {<<"Accept", "application/vnd.github+json">>,
                 <<"X-GitHub-Api-Version", "2022-11-28">>}

\* what an AuthProvider can return: an error, or a header value that may be empty
AuthResults == {[err |-> TRUE, val |-> ""], [err |-> FALSE, val |-> ""],
                [err |-> FALSE, val |-> "Bearer t1"], [err |-> FALSE, val |-> "Bearer t2"]}

NoAuth == [err |-> FALSE, val |-> "none"]

NoHeader == [k \in HeaderKeys |-> <<>>]

VARIABLES
    rtHeaders,      \* the header objects: 1 is the caller's, 2 the clone's
    rtOrig,         \* history: the caller's header when RoundTrip was called
    rtStatic,       \* c.staticHeaders
    rtProvider,     \* c.authProvider != nil
    rtPc,           \* "start" | "cloned" | "static" | "authed" | "returned"
    rtReq2,         \* the header object req2.Header refers to (0: no req2 yet)
    rtAuth,         \* what the provider returned
    rtBaseCalls,    \* history: calls of c.base.RoundTrip
    rtForwarded,    \* history: the header of the request handed to the base transport
    rtRet           \* what RoundTrip returned

tripVars == <<rtHeaders, rtOrig, rtStatic, rtProvider, rtPc, rtReq2, rtAuth, rtBaseCalls,
              rtForwarded, rtRet>>

\* the headers a caller passes: with or without its own Authorization, and an Accept
\* header of up to n values
CallerHeaders(n) ==
    {[k \in HeaderKeys |->
         IF k = "Authorization" THEN a
         ELSE IF k = "Accept" THEN [i \in 1..m |-> "text/plain"]
         ELSE <<>>] : a \in {<<>>, <<"Basic caller">>}, m \in 0..n}

InitTripFor(headers, statics, providers) ==
    /\ rtOrig \in headers
    /\ rtHeaders = [r \in {1, 2} |-> IF r = 1 THEN rtOrig ELSE NoHeader]
    /\ rtStatic \in statics
    /\ rtProvider \in providers
    /\ rtPc = "start"
    /\ rtReq2 = 0
    /\ rtAuth = NoAuth
    /\ rtBaseCalls = 0
    /\ rtForwarded = NoHeader
    /\ rtRet = "none"

InitTrip == InitTripFor(CallerHeaders(MaxHeaderValues), {{}, GithubStatic}, BOOLEAN)

\* no request under way
TripIdle == InitTripFor({NoHeader}, {{}}, {FALSE})

\* Header.Set(k, v): the values of the canonical key are replaced by v
HeaderSet(h, k, v) == [h EXCEPT ![CanonicalKey(k)] = <<v>>]

\* for k, v := range c.staticHeaders { h.Set(k, v) }: the keys of a map are distinct
RECURSIVE SetAll(_, _)
SetAll(h, pairs) ==
    IF pairs = {} THEN h
    ELSE LET p == CHOOSE q \in pairs : TRUE
         IN  SetAll(HeaderSet(h, p[1], p[2]), pairs \ {p})

\* mutant: req2 shares the caller's header
TripClone_Shared ==
    /\ rtPc = "start"
    /\ rtReq2' = 1
    /\ rtPc' = "cloned"
    /\ UNCHANGED <<rtHeaders, rtOrig, rtStatic, rtProvider, rtAuth, rtBaseCalls, rtForwarded,
                   rtRet>>

\* req2 := req.Clone(req.Context()): Clone copies the header
TripClone ==
    /\ rtPc = "start"
    /\ rtHeaders' = [rtHeaders EXCEPT ![2] = rtHeaders[1]]
    /\ rtReq2' = 2
    /\ rtPc' = "cloned"
    /\ UNCHANGED <<rtOrig, rtStatic, rtProvider, rtAuth, rtBaseCalls, rtForwarded, rtRet>>

\* the static headers are set on req2
TripStatic ==
    /\ rtPc = "cloned"
    /\ rtHeaders' = [rtHeaders EXCEPT ![rtReq2] = SetAll(@, rtStatic)]
    /\ rtPc' = "static"
    /\ UNCHANGED <<rtOrig, rtStatic, rtProvider, rtReq2, rtAuth, rtBaseCalls, rtForwarded,
                   rtRet>>

\* if c.authProvider != nil { val, err := c.authProvider(req2) ... }
TripAuth ==
    /\ rtPc = "static"
    /\ IF rtProvider
       THEN \E r \in AuthResults :
               /\ rtAuth' = r
               /\ IF r.err
                  THEN /\ rtRet' = "authErr"
                       /\ rtPc' = "returned"
                       /\ UNCHANGED rtHeaders
                  ELSE /\ rtHeaders' = IF r.val # ""
                                       THEN [rtHeaders EXCEPT ![rtReq2] =
                                                HeaderSet(@, "Authorization", r.val)]
                                       ELSE rtHeaders
                       /\ rtPc' = "authed"
                       /\ UNCHANGED rtRet
       ELSE /\ rtPc' = "authed"
            /\ UNCHANGED <<rtAuth, rtHeaders, rtRet>>
    /\ UNCHANGED <<rtOrig, rtStatic, rtProvider, rtReq2, rtBaseCalls, rtForwarded>>

\* resp, err := c.base.RoundTrip(req2); its error or its response is returned
TripBase ==
    /\ rtPc = "authed"
    /\ rtBaseCalls' = rtBaseCalls + 1
    /\ rtForwarded' = rtHeaders[rtReq2]
    /\ \E r \in {"baseErr", "resp"} : rtRet' = r
    /\ rtPc' = "returned"
    /\ UNCHANGED <<rtHeaders, rtOrig, rtStatic, rtProvider, rtReq2, rtAuth>>

\* C33: RoundTrip's auth contract: a provider error is what RoundTrip returns and the
\* base transport is not called; an empty value leaves the Authorization header as the
\* request had it; any other value is the Authorization header of the forwarded
\* request; and the caller's request header is unchanged throughout.
C33_AuthContract ==
    /\ rtHeaders[1] = rtOrig
    /\ rtAuth.err => (rtRet = "authErr" /\ rtPc = "returned" /\ rtBaseCalls = 0)
    /\ rtRet = "authErr" => rtAuth.err
    /\ rtBaseCalls <= 1
    /\ rtBaseCalls = 1 =>
          /\ rtPc = "returned" /\ rtRet \in {"baseErr", "resp"}
          /\ (rtProvider /\ rtAuth.val # "") => rtForwarded["Authorization"] = <<rtAuth.val>>
          /\ (~rtProvider \/ rtAuth.val = "") =>
                rtForwarded["Authorization"] = rtOrig["Authorization"]
          /\ \A p \in rtStatic : rtForwarded[CanonicalKey(p[1])] = <<p[2]>>

\* a request that came with its own Authorization and two Accept values was forwarded
\* with the provider's value and the static headers
C33_Witness ==
    /\ rtPc = "returned"
    /\ rtRet = "resp"
    /\ rtOrig["Authorization"] = <<"Basic caller">>
    /\ Len(rtOrig["Accept"]) = 2
    /\ rtStatic = GithubStatic
    /\ rtAuth.val = "Bearer t1"
    /\ rtForwarded["Authorization"] = <<"Bearer t1">>
    /\ rtHeaders[1] = rtOrig

(***************************************************************************)
(* ValidateAndFilterUsers as it runs (src/internal/github/users.go 22-140): *)
(* one goroutine per username, a semaphore of 10, a result channel closed   *)
(* after wg.Wait(), and the collection of the results. Up to two usernames  *)
(* of the list are followed by name; the other usernames of the list are    *)
(* counted.                                                                 *)
(***************************************************************************)

\* the largest number of usernames of the list that are counted only
MaxOthers == 10

\* semaphore := make(chan struct{}, 10)
SemaphoreCap == 10

\* the lists of distinct usernames that are followed by name
WatchedLists == {l \in NameLists(Cardinality(Usernames)) :
                    \A i \in 1..Len(l), j \in 1..Len(l) : i # j => l[i] # l[j]}

VARIABLES
    vfWatched,      \* the usernames followed by name, in the order of the input list
    vfOthers,       \* the number of the other usernames of the input list
    vfCtxDone,      \* ctx.Done() is closed (the 60 s timeout or the caller)
    vfPc,           \* per watched username: "none" | "wait" | "flight" | "done"
    vfLookup,       \* history, per watched username: "none" | "200" | "not200" | "skipped"
    vfChan,         \* the results of the watched usernames, in the order they were sent
    oWait,          \* other goroutines waiting for the semaphore
    oFlight,        \* other goroutines holding the semaphore
    oValid,         \* other goroutines that have sent valid: true
    oInvalid,       \* other goroutines that have sent valid: false
    vfClosed,       \* close(resultChan) has run
    vfRet           \* what the function returned (NoValidation: nothing yet)

validateVars == <<vfWatched, vfOthers, vfCtxDone, vfPc, vfLookup, vfChan, oWait, oFlight,
                  oValid, oInvalid, vfClosed, vfRet>>

NoValidation == [err |-> FALSE, ValidUsers |-> <<>>, InvalidUsers |-> <<>>,
                 otherValid |-> -1, otherInvalid |-> -1]

InitValidateFor(watched, others) ==
    /\ vfWatched \in watched
    /\ vfOthers \in others
    /\ vfCtxDone = FALSE
    /\ vfPc = [u \in Usernames |-> IF u \in Names(vfWatched) THEN "wait" ELSE "none"]
    /\ vfLookup = [u \in Usernames |-> "none"]
    /\ vfChan = <<>>
    /\ oWait = vfOthers
    /\ oFlight = 0
    /\ oValid = 0
    /\ oInvalid = 0
    /\ vfClosed = FALSE
    /\ vfRet = NoValidation

\* the non-empty input lists
InitValidate ==
    /\ InitValidateFor(WatchedLists, 0..MaxOthers)
    /\ Len(vfWatched) + vfOthers >= 1

\* no validation under way
ValidateIdle == InitValidateFor({<<>>}, {0})

\* the goroutines between `semaphore <- struct{}{}` and the deferred `<-semaphore`
InFlight == Cardinality({u \in Usernames : vfPc[u] = "flight"}) + oFlight

\* mutant: the goroutines do not wait for the semaphore
SemaphoreFree_Always == TRUE

\* semaphore <- struct{}{} does not block
SemaphoreFree == InFlight < SemaphoreCap

\* the context's timeout expires or the caller cancels
VfCancel ==
    /\ ~vfCtxDone
    /\ ~vfClosed
    /\ vfCtxDone' = TRUE
    /\ UNCHANGED <<vfWatched, vfOthers, vfPc, vfLookup, vfChan, oWait, oFlight, oValid,
                   oInvalid, vfClosed, vfRet>>

\* the goroutine of a watched username takes the semaphore
VfAcquire(u) ==
    /\ vfPc[u] = "wait"
    /\ SemaphoreFree
    /\ vfPc' = [vfPc EXCEPT ![u] = "flight"]
    /\ UNCHANGED <<vfWatched, vfOthers, vfCtxDone, vfLookup, vfChan, oWait, oFlight, oValid,
                   oInvalid, vfClosed, vfRet>>

\* what the goroutine finds: with ctx done no lookup or a failed one, otherwise the
\* status 200 or anything else (404, another status, an error)
LookupOutcomes == IF vfCtxDone THEN {"skipped", "not200"} ELSE {"200", "not200"}

\* the goroutine sends its result, releases the semaphore and calls wg.Done()
VfFinish(u) ==
    /\ vfPc[u] = "flight"
    /\ \E outcome \in LookupOutcomes :
          /\ vfLookup' = [vfLookup EXCEPT ![u] = outcome]
          /\ vfChan' = Append(vfChan, [username |-> u, valid |-> (outcome = "200")])
    /\ vfPc' = [vfPc EXCEPT ![u] = "done"]
    /\ UNCHANGED <<vfWatched, vfOthers, vfCtxDone, oWait, oFlight, oValid, oInvalid,
                   vfClosed, vfRet>>

\* the goroutine of another username takes the semaphore
OtherAcquire ==
    /\ oWait > 0
    /\ SemaphoreFree
    /\ oWait' = oWait - 1
    /\ oFlight' = oFlight + 1
    /\ UNCHANGED <<vfWatched, vfOthers, vfCtxDone, vfPc, vfLookup, vfChan, oValid, oInvalid,
                   vfClosed, vfRet>>

\* the goroutine of another username sends its result and releases the semaphore
OtherFinish ==
    /\ oFlight > 0
    /\ oFlight' = oFlight - 1
    /\ \E outcome \in LookupOutcomes :
          IF outcome = "200"
          THEN oValid' = oValid + 1 /\ UNCHANGED oInvalid
          ELSE oInvalid' = oInvalid + 1 /\ UNCHANGED oValid
    /\ UNCHANGED <<vfWatched, vfOthers, vfCtxDone, vfPc, vfLookup, vfChan, oWait,
                   vfClosed, vfRet>>

\* go func() { wg.Wait(); close(resultChan) }()
VfClose ==
    /\ ~vfClosed
    /\ \A u \in Usernames : vfPc[u] \in {"none", "done"}
    /\ oWait = 0
    /\ oFlight = 0
    /\ vfClosed' = TRUE
    /\ UNCHANGED <<vfWatched, vfOthers, vfCtxDone, vfPc, vfLookup, vfChan, oWait, oFlight,
                   oValid, oInvalid, vfRet>>

\* the range over resultChan ends on the closed channel; validUsers is filled from the
\* input list and validationMap, and the function returns
VfCollect ==
    /\ vfClosed
    /\ vfRet = NoValidation
    /\ LET validationMap == {vfChan[i].username : i \in {j \in 1..Len(vfChan) : vfChan[j].valid}}
           failed == SelectSeq(vfChan, LAMBDA r : ~r.valid)
           invalidUsers == [i \in 1..Len(failed) |-> failed[i].username]
           validUsers == SelectSeq(vfWatched, LAMBDA u : u \in validationMap)
       IN  vfRet' = IF Len(validUsers) + oValid = 0
                    THEN [err |-> TRUE, ValidUsers |-> <<>>, InvalidUsers |-> <<>>,
                          otherValid |-> 0, otherInvalid |-> 0]
                    ELSE [err |-> FALSE, ValidUsers |-> validUsers,
                          InvalidUsers |-> invalidUsers,
                          otherValid |-> oValid, otherInvalid |-> oInvalid]
    /\ UNCHANGED <<vfWatched, vfOthers, vfCtxDone, vfPc, vfLookup, vfChan, oWait, oFlight,
                   oValid, oInvalid, vfClosed>>

\* the number of times u occurs in list
Occurrences(list, u) == Cardinality({i \in 1..Len(list) : list[i] = u})

\* C39: ValidateAndFilterUsers partitions a non-empty list of distinct usernames: at
\* most 10 lookups are in flight; the result channel is closed only after every
\* goroutine has sent its result; a result has every username in exactly one of
\* ValidUsers and InvalidUsers, valid exactly when its lookup returned 200, ValidUsers
\* in the order of the input; and an error is returned instead when no lookup
\* returned 200.
C39_Partition ==
    /\ InFlight <= 10
    /\ vfClosed =>
          /\ \A u \in Names(vfWatched) : vfPc[u] = "done" /\ vfLookup[u] # "none"
          /\ Len(vfChan) = Len(vfWatched)
          /\ oValid + oInvalid = vfOthers
    /\ vfRet # NoValidation =>
          /\ vfClosed
          /\ vfRet.err <=> ((\A u \in Names(vfWatched) : vfLookup[u] # "200") /\ oValid = 0)
          /\ ~vfRet.err =>
                /\ \A u \in Names(vfWatched) :
                      /\ Occurrences(vfRet.ValidUsers, u) + Occurrences(vfRet.InvalidUsers, u) = 1
                      /\ Occurrences(vfRet.ValidUsers, u) = 1 <=> vfLookup[u] = "200"
                /\ Names(vfRet.ValidUsers) \cup Names(vfRet.InvalidUsers) = Names(vfWatched)
                /\ \A i \in 1..Len(vfRet.ValidUsers), j \in 1..Len(vfRet.ValidUsers) :
                      i < j => \E k \in 1..Len(vfWatched), l \in 1..Len(vfWatched) :
                                  /\ k < l
                                  /\ vfWatched[k] = vfRet.ValidUsers[i]
                                  /\ vfWatched[l] = vfRet.ValidUsers[j]
                /\ vfRet.otherValid + vfRet.otherInvalid = vfOthers

\* a list of more than 10 usernames: bob, before alice in the list, sent its result
\* after alice; both are valid and returned in the order of the list, with another
\* username invalid
C39_Witness ==
    /\ vfRet # NoValidation
    /\ ~vfRet.err
    /\ Len(vfWatched) + vfOthers > SemaphoreCap
    /\ vfWatched = <<"bob", "alice">>
    /\ vfChan[1].username = "alice"
    /\ vfRet.ValidUsers = <<"bob", "alice">>
    /\ vfRet.otherInvalid >= 1

vars == <<poolVars, cacheVars, retryVars, startVars, flightVars, nameVars, prepVars, stampVars, tripVars, validateVars>>

\* what the steps of one part leave alone
notPool == <<cacheVars, retryVars, startVars, flightVars, nameVars, prepVars, stampVars, tripVars, validateVars>>
notCache == <<poolVars, retryVars, startVars, flightVars, nameVars, prepVars, stampVars, tripVars, validateVars>>
notRetry == <<poolVars, cacheVars, startVars, flightVars, nameVars, prepVars, stampVars, tripVars, validateVars>>
notStart == <<poolVars, cacheVars, retryVars, flightVars, nameVars, prepVars, stampVars, tripVars, validateVars>>
notFlight == <<poolVars, cacheVars, retryVars, startVars, nameVars, prepVars, stampVars, tripVars, validateVars>>
notNames == <<poolVars, cacheVars, retryVars, startVars, flightVars, prepVars, stampVars, tripVars, validateVars>>
notPrep == <<poolVars, cacheVars, retryVars, startVars, flightVars, nameVars, stampVars, tripVars, validateVars>>
notStamp == <<poolVars, cacheVars, retryVars, startVars, flightVars, nameVars, prepVars, tripVars, validateVars>>
notTrip == <<poolVars, cacheVars, retryVars, startVars, flightVars, nameVars, prepVars, stampVars, validateVars>>
notValidate == <<poolVars, cacheVars, retryVars, startVars, flightVars, nameVars, prepVars, stampVars, tripVars>>

Init == InitPool /\ CacheIdle /\ RetryIdle /\ StartIdle /\ FlightIdle /\ NamesIdle /\ PrepIdle /\ StampIdle /\ TripIdle /\ ValidateIdle

Next ==
    \/ Enqueue /\ UNCHANGED notPool
    \/ CloseOrgChan /\ UNCHANGED notPool
    \/ CloseResults /\ UNCHANGED notPool
    \/ Cancel /\ UNCHANGED notPool
    \/ \E w \in Workers : WorkerDequeue(w) /\ UNCHANGED notPool
    \/ \E w \in Workers : WorkerExit(w) /\ UNCHANGED notPool
    \/ \E w \in Workers : WorkerCreateOrg(w) /\ UNCHANGED notPool
    \/ \E w \in Workers : WorkerInstallApp(w) /\ UNCHANGED notPool
    \/ \E w \in Workers : WorkerAddMember(w) /\ UNCHANGED notPool
    \/ \E w \in Workers : WorkerCreateRepo(w) /\ UNCHANGED notPool
    \/ \E w \in Workers : WorkerFinish(w) /\ UNCHANGED notPool
    \/ \E w \in Workers : WorkerDeleteOrg(w) /\ UNCHANGED notPool
    \/ AggReceive /\ UNCHANGED notPool
    \/ AggClosed /\ UNCHANGED notPool
    \/ AggDeadline /\ UNCHANGED notPool

Spec == Init /\ [][Next]_vars

\* the steps of the run's goroutines: every step but the cancellation of the context
Progress ==
    \/ Enqueue /\ UNCHANGED notPool
    \/ CloseOrgChan /\ UNCHANGED notPool
    \/ CloseResults /\ UNCHANGED notPool
    \/ \E w \in Workers : WorkerDequeue(w) /\ UNCHANGED notPool
    \/ \E w \in Workers : WorkerExit(w) /\ UNCHANGED notPool
    \/ \E w \in Workers : WorkerCreateOrg(w) /\ UNCHANGED notPool
    \/ \E w \in Workers : WorkerInstallApp(w) /\ UNCHANGED notPool
    \/ \E w \in Workers : WorkerAddMember(w) /\ UNCHANGED notPool
    \/ \E w \in Workers : WorkerCreateRepo(w) /\ UNCHANGED notPool
    \/ \E w \in Workers : WorkerFinish(w) /\ UNCHANGED notPool
    \/ \E w \in Workers : WorkerDeleteOrg(w) /\ UNCHANGED notPool
    \/ AggReceive /\ UNCHANGED notPool
    \/ AggClosed /\ UNCHANGED notPool
    \/ AggDeadline /\ UNCHANGED notPool

\* the sizes of the runs whose termination is checked
LiveSizes == {0, 1, 2}

InitLive ==
    /\ InitPoolFor({"create", "destroy", "batch"}, LiveSizes)
    /\ CacheIdle
    /\ RetryIdle
    /\ StartIdle
    /\ FlightIdle
    /\ NamesIdle
    /\ PrepIdle
    /\ StampIdle
    /\ TripIdle
    /\ ValidateIdle

\* the run under fair scheduling of its goroutines; the context may be cancelled at
\* any moment or never
SpecLive == InitLive /\ [][Next]_vars /\ WF_vars(Progress)

\* the run is over: the workers have exited, both channels are closed and the
\* aggregator has returned
RunOver == AllWorkersExited /\ orgChanClosed /\ resultsClosed /\ aggPc # "loop"

\* C35: termination: with every remote operation returning, under fair scheduling
\* every worker exits, the result channel is closed and the run returns, with or
\* without cancellation, and no state short of that is a deadlock.
C35_Termination ==
    /\ [](~RunOver => ENABLED Progress)
    /\ <>[]RunOver

\* a run over two identities was cancelled while a worker was processing, and is over
C35_Witness ==
    /\ RunOver
    /\ cancelled
    /\ Cardinality(allUsers) = 2
    /\ \E w \in Workers : sawCancel[w]
    /\ \E u \in allUsers : published[u] = 1

\* the provisioning procedure studied with the history of its remote calls:
\* creation runs only, with up to MaxTemplates configured templates
NextProvision ==
    \/ Enqueue /\ UNCHANGED notPool
    \/ CloseOrgChan /\ UNCHANGED notPool
    \/ CloseResults /\ UNCHANGED notPool
    \/ Cancel /\ UNCHANGED notPool
    \/ \E w \in Workers : WorkerDequeue(w) /\ UNCHANGED notPool
    \/ \E w \in Workers : WorkerExit(w) /\ UNCHANGED notPool
    \/ \E w \in Workers : WorkerCreateOrg(w) /\ UNCHANGED notPool
    \/ \E w \in Workers : WorkerInstallApp(w) /\ UNCHANGED notPool
    \/ \E w \in Workers : WorkerAddMember(w) /\ UNCHANGED notPool
    \/ \E w \in Workers : WorkerCreateRepo(w) /\ UNCHANGED notPool
    \/ \E w \in Workers : WorkerFinish(w) /\ UNCHANGED notPool
    \/ AggReceive /\ UNCHANGED notPool
    \/ AggClosed /\ UNCHANGED notPool
    \/ AggDeadline /\ UNCHANGED notPool

InitProvision ==
    /\ InitPoolWith({"create"}, ProvisionSizes, 0..MaxTemplates, TRUE)
    /\ CacheIdle
    /\ RetryIdle
    /\ StartIdle
    /\ FlightIdle
    /\ NamesIdle
    /\ PrepIdle
    /\ StampIdle
    /\ TripIdle
    /\ ValidateIdle

SpecProvision == InitProvision /\ [][NextProvision]_vars

NextCache ==
    \/ \E c \in Callers : BeginCall(c) /\ UNCHANGED notCache
    \/ \E c \in Callers : AcquireLock(c) /\ UNCHANGED notCache
    \/ \E c \in Callers : ExchangeReturn(c) /\ UNCHANGED notCache
    \/ Tick /\ UNCHANGED notCache

InitCacheSpec == InitCache /\ PoolIdle /\ RetryIdle /\ StartIdle /\ FlightIdle /\ NamesIdle /\ PrepIdle /\ StampIdle /\ TripIdle /\ ValidateIdle

SpecCache == InitCacheSpec /\ [][NextCache]_vars

NextRetry ==
    \/ RetryEnter /\ UNCHANGED notRetry
    \/ RetryAttempt /\ UNCHANGED notRetry
    \/ RetrySleep /\ UNCHANGED notRetry
    \/ RetryNextCall /\ UNCHANGED notRetry

InitRetrySpec == InitRetry /\ PoolIdle /\ CacheIdle /\ StartIdle /\ FlightIdle /\ NamesIdle /\ PrepIdle /\ StampIdle /\ TripIdle /\ ValidateIdle

SpecRetry == InitRetrySpec /\ [][NextRetry]_vars
NextStart ==
    \/ StartWorker /\ UNCHANGED notStart
    \/ SpawnDone /\ UNCHANGED notStart
    \/ SendUnit /\ UNCHANGED notStart
    \/ CloseQueue /\ UNCHANGED notStart
    \/ WorkerTake /\ UNCHANGED notStart
    \/ WorkerDone /\ UNCHANGED notStart
    \/ WorkerLeave /\ UNCHANGED notStart
    \/ CloseResultsChan /\ UNCHANGED notStart
    \/ ReceiveResult /\ UNCHANGED notStart
    \/ RunReturns /\ UNCHANGED notStart

\* C22: the number of workers started for a run over K identities is min(9, K);
\* with K = 0 no worker is started and the run still closes the result channel and
\* returns; never are more than 9 identities being processed at the same time.
C22_WorkerCount ==
    /\ stNumWorkers = (IF stUsers < 9 THEN stUsers ELSE 9)
    /\ Spawned <= stNumWorkers
    /\ stPc # "spawn" => Spawned = stNumWorkers
    /\ stBusy <= 9
    /\ stBusy <= stUsers
    \* the run is never stuck before its return, and returns with every record
    /\ stPc # "done" => ENABLED NextStart
    /\ stPc = "done" => /\ stResultsClosed
                        /\ stExited = stNumWorkers
                        /\ stReceived = stUsers

\* more than nine identities: nine are being processed and others wait in the queue
C22_Witness ==
    /\ stUsers > 9
    /\ stBusy = 9
    /\ stQueue >= 1
    /\ stIdle = 0

InitStartSpec == InitStart /\ PoolIdle /\ CacheIdle /\ RetryIdle /\ FlightIdle /\ NamesIdle /\ PrepIdle /\ StampIdle /\ TripIdle /\ ValidateIdle

SpecStart == InitStartSpec /\ [][NextStart]_vars
NextFlight ==
    \/ FlightCancel /\ UNCHANGED notFlight
    \/ FlightDequeue /\ UNCHANGED notFlight
    \/ FlightExit /\ UNCHANGED notFlight
    \/ CallStart /\ UNCHANGED notFlight
    \/ CallReturn /\ UNCHANGED notFlight

InitFlightSpec == InitFlight /\ PoolIdle /\ CacheIdle /\ RetryIdle /\ StartIdle /\ NamesIdle /\ PrepIdle /\ StampIdle /\ TripIdle /\ ValidateIdle

SpecFlight == InitFlightSpec /\ [][NextFlight]_vars
\* the token cache against a remote side that reports other lifetimes as well
InitExpirySpec ==
    /\ InitCacheWith({FALSE}, ReportedLifetimes)
    /\ PoolIdle
    /\ RetryIdle
    /\ StartIdle
    /\ FlightIdle
    /\ NamesIdle
    /\ PrepIdle
    /\ StampIdle
    /\ TripIdle
    /\ ValidateIdle

SpecExpiry == InitExpirySpec /\ [][NextCache]_vars
(***************************************************************************)
(* An end-to-end run of CreateLabEnvironment: users alice (1) and bob (2),  *)
(* facilitator carol (3), two templates. Every remote operation succeeds,   *)
(* except that the second template of bob is answered with the rate limit   *)
(* once and created at the second request. The worker's call of             *)
(* CreateRepoFromTemplate for that template is the call of the retry part;  *)
(* every other call gets its success at the first request.                  *)
(***************************************************************************)
ScenarioUsers == {1, 2}
ScenarioFacilitators == {3}
ScenarioTemplates == {2}

\* the worker is at the call of CreateRepoFromTemplate for bob's second template
AtRetriedTemplate(w) ==
    /\ wuser[w] = 2
    /\ wpc[w] = "repos"
    /\ Len(wres[w].repos) = 1

\* the remote call made in this step succeeds
CallSucceeds ==
    \A u \in allUsers :
        calls'[u] # calls[u] => calls'[u][Len(calls'[u])].ok

\* the remote call made in this step ends as the call of the retry part ended
CallEndsAsRetry ==
    \A u \in allUsers :
        calls'[u] # calls[u] => (calls'[u][Len(calls'[u])].ok <=> rresult = "ok")

\* the remote side answers the first request with the rate limit and the next with 201
ScriptedResponse ==
    lastResp' = IF attempts = 0
                THEN [err |-> FALSE, status |-> 422, json |-> TRUE, phrase |-> TRUE]
                ELSE [err |-> FALSE, status |-> 201, json |-> TRUE, phrase |-> FALSE]

NextScenario ==
    \/ Enqueue /\ UNCHANGED notPool
    \/ CloseOrgChan /\ UNCHANGED notPool
    \/ CloseResults /\ UNCHANGED notPool
    \/ \E w \in Workers : WorkerDequeue(w) /\ UNCHANGED notPool
    \/ \E w \in Workers : WorkerExit(w) /\ UNCHANGED notPool
    \/ \E w \in Workers : WorkerCreateOrg(w) /\ CallSucceeds /\ UNCHANGED notPool
    \/ \E w \in Workers : WorkerInstallApp(w) /\ CallSucceeds /\ UNCHANGED notPool
    \/ \E w \in Workers : WorkerAddMember(w) /\ CallSucceeds /\ UNCHANGED notPool
    \/ \E w \in Workers :
          ~AtRetriedTemplate(w) /\ WorkerCreateRepo(w) /\ CallSucceeds /\ UNCHANGED notPool
    \/ (\E w \in Workers : AtRetriedTemplate(w)) /\ RetryEnter /\ UNCHANGED notRetry
    \/ RetryAttempt /\ ScriptedResponse /\ UNCHANGED notRetry
    \/ RetrySleep /\ UNCHANGED notRetry
    \/ \E w \in Workers :
          /\ AtRetriedTemplate(w)
          /\ rpc = "done"
          /\ WorkerCreateRepo(w)
          /\ CallEndsAsRetry
          /\ UNCHANGED notPool
    \/ \E w \in Workers : WorkerFinish(w) /\ UNCHANGED notPool
    \/ AggReceive /\ UNCHANGED notPool
    \/ AggClosed /\ UNCHANGED notPool

InitScenario ==
    /\ InitPoolWith({"create"}, {Cardinality(ScenarioUsers \cup ScenarioFacilitators)},
                    ScenarioTemplates, TRUE)
    /\ allUsers = ScenarioUsers \cup ScenarioFacilitators
    /\ facilitators = ScenarioFacilitators
    /\ InitRetry
    /\ templateOK
    /\ CacheIdle
    /\ StartIdle
    /\ FlightIdle
    /\ NamesIdle
    /\ PrepIdle
    /\ StampIdle
    /\ TripIdle
    /\ ValidateIdle

SpecScenario == InitScenario /\ [][NextScenario]_vars

\* the two sub-results of a record whose two templates were created
BothCreated == <<[name |-> 1, status |-> "success"], [name |-> 2, status |-> "success"]>>

\* C26 as stated: the run ends with a report of 2 successes and 0 failures.
C26_TwoSuccesses ==
    aggPc = "closed" =>
        /\ emitted = <<[organizations |-> results, successCount |-> 2, failureCount |-> 0]>>
        /\ \A u \in ScenarioUsers : Len(RecordsOf(u)) = 1 /\ RecordsOf(u)[1].repos = BothCreated
        /\ attempts = 2

\* C26, amended: the facilitator is provisioned with the users, so the run ends with
\* a report of 3 successes and 0 failures and returns nil; alice, bob and carol have
\* two successful sub-results each; the admin grant is attempted for alice and bob
\* and not for carol; bob's second template was requested exactly twice, with one
\* delay in between.
C26_ThreeSuccesses ==
    /\ aggPc # "deadline"
    /\ aggPc = "closed" =>
        /\ retErr = "nil"
        /\ Len(results) = 3
        /\ emitted = <<[organizations |-> results, successCount |-> 3, failureCount |-> 0]>>
        /\ \A u \in ScenarioUsers \cup ScenarioFacilitators :
              /\ Len(RecordsOf(u)) = 1
              /\ RecordsOf(u)[1].status = "success"
              /\ RecordsOf(u)[1].repos = BothCreated
              /\ Len(CallsOf(u, "createRepo")) = 2
              /\ Len(CallsOf(u, "addMember")) = (IF u \in ScenarioUsers THEN 1 ELSE 0)
        /\ rpc = "done"
        /\ rresult = "ok"
        /\ attempts = 2
        /\ sleeps = 1
        /\ elapsed = RetryDelay

\* the run has ended, with bob's record received last
C26_Witness ==
    /\ aggPc = "closed"
    /\ successCount = 3
    /\ results[3].user = 2
    /\ attempts = 2
NextNames ==
    \/ \E u \in nmUsers : NameCreate(u) /\ UNCHANGED notNames
    \/ \E u \in nmUsers : NameDelete(u) /\ UNCHANGED notNames

InitNamesSpec == InitNames /\ PoolIdle /\ CacheIdle /\ RetryIdle /\ StartIdle /\ FlightIdle /\ PrepIdle /\ StampIdle /\ TripIdle /\ ValidateIdle

SpecNames == InitNamesSpec /\ [][NextNames]_vars
NextPrep ==
    \/ PrepValidateUsers /\ UNCHANGED notPrep
    \/ PrepValidateFacilitators /\ UNCHANGED notPrep
    \/ PrepCombine /\ UNCHANGED notPrep
    \/ PrepDispatch /\ UNCHANGED notPrep
    \/ PrepReceive /\ UNCHANGED notPrep

InitPrepSpec ==
    InitPrep /\ PoolIdle /\ CacheIdle /\ RetryIdle /\ StartIdle /\ FlightIdle /\ NamesIdle /\ StampIdle /\ TripIdle /\ ValidateIdle

SpecPrep == InitPrepSpec /\ [][NextPrep]_vars
NextStamp ==
    \/ StampBuild /\ UNCHANGED notStamp
    \/ StampCall /\ UNCHANGED notStamp
    \/ StampReturn /\ UNCHANGED notStamp
    \/ StampSend /\ UNCHANGED notStamp
    \/ StampTick /\ UNCHANGED notStamp

InitStampSpec ==
    InitStamp /\ PoolIdle /\ CacheIdle /\ RetryIdle /\ StartIdle /\ FlightIdle /\ NamesIdle /\ PrepIdle /\ TripIdle /\ ValidateIdle

SpecStamp == InitStampSpec /\ [][NextStamp]_vars
NextTrip ==
    \/ TripClone /\ UNCHANGED notTrip
    \/ TripStatic /\ UNCHANGED notTrip
    \/ TripAuth /\ UNCHANGED notTrip
    \/ TripBase /\ UNCHANGED notTrip

InitTripSpec ==
    /\ InitTrip
    /\ PoolIdle
    /\ CacheIdle
    /\ RetryIdle
    /\ StartIdle
    /\ FlightIdle
    /\ NamesIdle
    /\ PrepIdle
    /\ StampIdle
    /\ ValidateIdle

SpecTrip == InitTripSpec /\ [][NextTrip]_vars
NextValidate ==
    \/ VfCancel /\ UNCHANGED notValidate
    \/ \E u \in Usernames : VfAcquire(u) /\ UNCHANGED notValidate
    \/ \E u \in Usernames : VfFinish(u) /\ UNCHANGED notValidate
    \/ OtherAcquire /\ UNCHANGED notValidate
    \/ OtherFinish /\ UNCHANGED notValidate
    \/ VfClose /\ UNCHANGED notValidate
    \/ VfCollect /\ UNCHANGED notValidate

InitValidateSpec ==
    /\ InitValidate
    /\ PoolIdle
    /\ CacheIdle
    /\ RetryIdle
    /\ StartIdle
    /\ FlightIdle
    /\ NamesIdle
    /\ PrepIdle
    /\ StampIdle
    /\ TripIdle

SpecValidate == InitValidateSpec /\ [][NextValidate]_vars
====
